---- MODULE Spec2Model ----
(***************************************************************************)
(* Two-player platform fighter: character state machine, physics step,     *)
(* combat resolver and the match layer that drives them.                   *)
(*                                                                         *)
(* Units.  The program computes in binary64; the model computes in fixed   *)
(* point with truncation toward zero:                                      *)
(*   positions, velocities, hitbox coordinates : 1/1000 pixel (per frame)  *)
(*   second-based timers                       : 1/30000 s  (dt = 500)     *)
(*   damage_percent, damage                    : 1/2 percent               *)
(*   weight                                    : 1/10                      *)
(*   knockback multiplier, trigonometry        : 1/1000                    *)
(* Frame-counted timers and counters are plain integers.                   *)
(***************************************************************************)
EXTENDS Integers, Sequences, FiniteSets, TLC

VARIABLES
    characters,      \* GameplayState.characters: [1..2 -> Character]
    respawn_timer,   \* GameplayState.respawn_timer: [1..2 -> Int], Absent when the key is not in the dict
    game_state,      \* StateManager.current_state_type: "gameplay", "win_screen"; "crashed" after an uncaught exception
    winner,          \* match_results['winner'], 0 before the match ended
    k_o_d_players,   \* PhysicsManager.k_o_d_players_this_frame: [1..2 -> KO record]
    stage,           \* the Stage object of the match
    input,           \* PlayerInput.current_state of both players: the keys held in the last step
    tick,            \* number of GameplayState.update calls so far
    engine,          \* GameEngine: its accumulator, and what its last update call did
    twin             \* a second run of the same match, given the same keys; NoTwin if none is followed

vars == <<characters, respawn_timer, game_state, winner, k_o_d_players, stage, input, tick,
          engine, twin>>

-----------------------------------------------------------------------------
(* Bounds of the model *)

MaxTicks == 40          \* gameplay ticks explored by the match specifications

-----------------------------------------------------------------------------
(* Scales *)

MILLI == 10 * 100           \* fixed-point scale of lengths, velocities, multipliers
DT == 500               \* fixed_timestep = 1/60 s in 1/30000 s
Absent == 0 - 1         \* marks a player that has no entry in respawn_timer

Players == {1, 2}
Other(p) == 3 - p

Abs(x) == IF x < 0 THEN 0 - x ELSE x
Sign(x) == IF x > 0 THEN 1 ELSE IF x < 0 THEN 0 - 1 ELSE 0
Min(a, b) == IF a < b THEN a ELSE b
Max(a, b) == IF a > b THEN a ELSE b

\* Let(e, LAMBDA x : body) is body with x bound to the value of e
Let(v, Op(_)) == Op(v)

\* Let for loops: v is evaluated before Op is applied, so that a long loop is
\* not evaluated as one nested expression
Strict(v, Op(_)) == IF v = v THEN Op(v) ELSE Op(v)

\* a / b rounded toward zero (C and Python int() truncation)
TDiv(a, b) == IF a >= 0 THEN a \div b ELSE 0 - ((0 - a) \div b)

\* x * (num / den) in fixed point
Scale(x, num, den) == TDiv(x * num, den)

\* int(x) of a milli-pixel coordinate, as pygame.Rect truncates its arguments
ToInt(x) == TDiv(x, MILLI)

\* floor(sqrt(n)), n < 2^31
ISqrt(n) ==
    LET RECURSIVE Bin(_, _)
        Bin(lo, hi) ==
            IF lo >= hi THEN lo
            ELSE LET mid == (lo + hi + 1) \div 2
                 IN IF mid * mid <= n THEN Bin(mid, hi) ELSE Bin(lo, mid - 1)
    IN Bin(0, 46340)

-----------------------------------------------------------------------------
(* Stage geometry (pixels) and stage physics *)

Platform(x, y, w) == [x |-> x, y |-> y, width |-> w]

Battlefield ==
    [ name |-> "battlefield",
      platforms |-> << Platform(200, 680, 800), Platform(250, 560, 180),
                       Platform(770, 560, 180), Platform(520, 450, 160) >>,
      left_blast_zone |-> 0 - 280, right_blast_zone |-> 1480,
      top_blast_zone |-> 0 - 250, bottom_blast_zone |-> 1150,
      spawn_points |-> << <<350, 630>>, <<850, 630>> >>,
      wind_effect |-> 0 ]

\* wind is wind_direction * wind_strength * 0.02, drawn when the stage is built
Plains(wind) ==
    [ name |-> "plains",
      platforms |-> << Platform(0, 600, 1400), Platform(600, 420, 200),
                       Platform(150, 480, 150), Platform(1100, 480, 150),
                       Platform(390, 420, 120), Platform(890, 420, 120) >>,
      left_blast_zone |-> 0 - 200, right_blast_zone |-> 1600,
      top_blast_zone |-> 0 - 200, bottom_blast_zone |-> 900,
      spawn_points |-> << <<380, 540>>, <<1020, 540>> >>,
      wind_effect |-> wind ]

\* random.choice([-1, 1]) * random.uniform(0.3, 0.7) * 0.02, at its two extremes
WindEffects == {0 - 14, 14}

Stages == {Battlefield} \cup {Plains(w) : w \in WindEffects}

-----------------------------------------------------------------------------
(* Archetypes *)

Archetypes == {"base", "warrior", "speedster", "heavy"}

Weight(arch) ==             \* tenths
    CASE arch = "speedster" -> 7
      [] arch = "heavy" -> 18
      [] OTHER -> 10

JumpStrength(arch) == IF arch = "base" THEN 15000 ELSE 16000
SHORT_HOP_STRENGTH == 8000
AIR_SPEED == 6000           \* Speedster.air_speed
GROUND_DECELERATION == 1800
AIR_ACCELERATION == 600
AIR_DECELERATION == 300

MaxWalkSpeed(c) ==
    IF c.arch = "speedster" THEN (IF c.speed_boost_active THEN 15000 ELSE 10000) ELSE 8000
MaxRunSpeed(c) ==
    IF c.arch = "speedster" THEN (IF c.speed_boost_active THEN 24000 ELSE 16000) ELSE 12000
GroundAcceleration(c) ==
    IF c.arch = "speedster" THEN (IF c.speed_boost_active THEN 2080 ELSE 1600) ELSE 1200

WIDTH == 60                 \* Character.width
HEIGHT == 80                \* Character.height

INVINCIBILITY == 9001       \* 0.3 s; binary64 leaves 4.9e-17 after 18 steps of 1/60, so it spans 19 updates
LANDING_LAG == 6000         \* 0.2 s
STATE_TIMER_CAP == 6500     \* state_timer is only ever compared with 0.2 s
ATTACK_FRAMES_CAP == 140    \* attack_state_frames is only ever compared with frame totals of at most 130
UP_SPECIAL_COOLDOWN == 600
SIDE_SPECIAL_COOLDOWN == 300
FLIGHT_MAX_DURATION == 120
RESPAWN_TIME == 60001       \* 2.0 s, not yet <= 0 after 120 subtractions of 1/60
KO_PERCENT == 600           \* damage_percent >= 300
START_LIVES == 3

-----------------------------------------------------------------------------
(* Attack descriptors *)

Atk(type, s, a, r, dmg, kb, range) ==
    [ type |-> type, startup_frames |-> s, active_frames |-> a, recovery_frames |-> r,
      damage |-> 2 * dmg, knockback |-> kb, range |-> range,
      has_armor |-> FALSE, armor_frames |-> 0, is_body_slam |-> FALSE,
      is_multihit |-> FALSE, hit_interval |-> 1, is_projectile |-> FALSE,
      stance_duration |-> 0, buff_duration |-> 0 ]

NoAttack == Atk("none", 0, 0, 0, 0, 0, 0)       \* current_attack = None

BaseAttack(direction) ==
    CASE direction = "neutral" -> Atk("neutral", 6, 4, 8, 8, 5, 60)
      [] direction = "side" -> Atk("side", 8, 5, 12, 12, 8, 60)
      [] direction = "up" -> Atk("up", 10, 6, 15, 10, 12, 0)
      [] direction = "down" -> Atk("down", 12, 3, 20, 15, 10, 0)
      [] OTHER -> NoAttack

WarriorAttack(direction) ==
    CASE direction = "neutral" -> Atk("sword_slash", 5, 4, 6, 7, 4, 70)
      [] direction = "side" -> Atk("sword_thrust", 12, 6, 18, 15, 10, 90)
      [] direction = "up" -> Atk("rising_slash", 8, 8, 20, 16, 15, 60)
      [] direction = "down" ->
            [Atk("energy_projectile", 20, 5, 25, 10, 8, 300) EXCEPT !.is_projectile = TRUE]
      [] OTHER -> NoAttack

SpeedsterAttack(direction) ==
    CASE direction = "neutral" -> Atk("lightning_jab", 3, 2, 0, 12, 4, 50)
      [] direction = "side" -> Atk("dash_attack", 1, 8, 1, 15, 6, 65)
      [] direction = "side_special" ->
            [Atk("lightning_dash", 5, 15, 20, 4, 5, 80)
                EXCEPT !.is_multihit = TRUE, !.hit_interval = 5]
      [] direction = "up" ->
            [Atk("whirlwind_flight", 5, FLIGHT_MAX_DURATION, 5, 2, 3, 60)
                EXCEPT !.is_multihit = TRUE, !.hit_interval = 10]
      [] direction = "down" ->
            [Atk("speed_boost", 8, 6, 6, 0, 0, 0) EXCEPT !.buff_duration = 180]
      [] OTHER -> NoAttack

HeavyAttack(direction) ==
    CASE direction = "neutral" ->
            [Atk("heavy_punch", 8, 6, 18, 18, 9, 75)
                EXCEPT !.has_armor = TRUE, !.armor_frames = 10]
      [] direction = "side" ->
            [Atk("hammer_slam", 12, 25, 30, 18, 8, 0)
                EXCEPT !.has_armor = TRUE, !.armor_frames = 40, !.is_body_slam = TRUE]
      [] direction = "up" -> Atk("ground_pound", 5, 30, 30, 26, 12, 120)
      [] direction = "down" ->
            [Atk("armor_stance", 10, 8, 12, 0, 0, 0) EXCEPT !.stance_duration = 240]
      [] OTHER -> NoAttack

Directions == {"neutral", "side", "up", "down",
               "neutral_special", "side_special", "up_special", "down_special"}

-----------------------------------------------------------------------------
(* Character *)

States == {"idle", "walking", "running", "jumping", "falling", "landing", "crouching",
           "light_attack", "heavy_attack", "side_special", "up_special", "down_special",
           "neutral_special", "blocking", "hit_stun", "knockdown", "grabbing", "grabbed"}

\* What a step did to a character: the perform_attack and take_damage calls
\* (with the character before and after each), the hitboxes it created, the
\* lose_life calls, whether update() ran, the positions after each sub-step.
\* calls: perform_attack calls; attacks: those that passed the guard; hits:
\* take_damage calls on this character; tested: combat passes in which one of
\* its multi-hit hitboxes overlapped the opponent; created, removed: hitboxes
\* appended to and taken from active_hitboxes; for the attack in progress,
\* at_rest: it began standing still on the ground, clean: no hit, stock loss or
\* landing lag since it began
EmptyHist == [calls |-> 0, attacks |-> 0, created |-> 0, removed |-> 0,
              hits |-> 0, tested |-> 0, at_rest |-> FALSE, clean |-> FALSE]

\* one hitbox left active_hitboxes
Removed(c) == [c EXCEPT !.hist.removed = c.hist.removed + 1]

\* a multi-hit hitbox overlapped the opponent in a combat pass
Tested(c) == [c EXCEPT !.hist.tested = c.hist.tested + 1]

\* pa, td: the perform_attack and take_damage calls of the step, each with the
\* character before and after; created: hitboxes appended; lost: lose_life calls;
\* path: per physics sub-step, the position the blast zones were tested at, and
\* the height and vertical velocity the platforms were tested at
EmptyLog == [ pa |-> << >>, td |-> << >>, created |-> 0, lost |-> 0, path |-> << >> ]

\* Character.__init__ followed by the subclass constructor
NewCharacter(arch, x, y, player_id) ==
    [ arch |-> arch, player_id |-> player_id,
      px |-> x * MILLI, py |-> y * MILLI, vx |-> 0, vy |-> 0,
      facing_right |-> (player_id = 1),
      lives |-> START_LIVES, damage_percent |-> 0,
      on_ground |-> TRUE, can_jump |-> TRUE, coyote_time |-> 0,
      current_state |-> "idle", previous_state |-> "idle", state_timer |-> 0,
      can_act |-> TRUE,
      is_attacking |-> FALSE, attack_state_frames |-> 0,
      hit_stun_timer |-> 0, invincibility_timer |-> 0,
      active_hitboxes |-> << >>, current_attack |-> NoAttack,
      attack_hitbox_created |-> FALSE,
      respawn_invincibility |-> 0,
      \* Heavy
      has_super_armor |-> FALSE, armor_timer |-> 0,
      power_stance_active |-> FALSE, power_stance_timer |-> 0,
      damage_multiplier |-> 2,                 \* halves: 2 = 1.0, 1 = 0.5
      is_ground_pounding |-> FALSE, ground_pound_attack_data |-> FALSE,
      \* Heavy and Speedster
      up_special_cooldown |-> 0,
      \* Speedster
      side_attack_cooldown |-> 0, side_special_cooldown |-> 0,
      is_flying_up |-> FALSE, flight_timer |-> 0,
      speed_boost_active |-> FALSE, speed_boost_timer |-> 0,
      \* an exception escaped one of this character's methods
      raised |-> FALSE,
      \* observation of the current step, never read by the program
      log |-> EmptyLog,
      \* running totals since construction, never read by the program
      hist |-> EmptyHist ]

\* the character without its observation log
Snap(c) == [c EXCEPT !.log = EmptyLog, !.hist = EmptyHist]


-----------------------------------------------------------------------------
(* Character: state changes, attacks, damage *)

change_state(c, new_state) ==
    IF new_state = c.current_state THEN c
    ELSE LET c1 == [c EXCEPT !.previous_state = c.current_state,
                             !.current_state = new_state,
                             !.state_timer = 0]
         IN CASE new_state = "landing" -> [c1 EXCEPT !.can_act = FALSE, !.hist.clean = FALSE]
              [] new_state \in {"idle", "walking", "running"} ->
                    [c1 EXCEPT !.can_act = TRUE, !.is_attacking = FALSE,
                               !.attack_state_frames = 0]
              [] new_state = "falling" -> [c1 EXCEPT !.on_ground = FALSE]
              [] OTHER -> c1

AttackState(direction) ==
    CASE direction = "neutral" -> "light_attack"
      [] direction = "side" -> "heavy_attack"
      [] direction = "up" -> "up_special"
      [] direction = "down" -> "down_special"
      [] direction = "side_special" -> "side_special"
      [] OTHER -> "idle"

\* perform_attack without its guard: a call restarts the attack at any time
NeverBusy(c) == FALSE

\* the guard every perform_attack begins with: if not self.can_act or self.is_attacking
Busy(c) == ~c.can_act \/ c.is_attacking

\* the three assignments every perform_attack makes once its guard passed
BeginAttack(c) ==
    [c EXCEPT !.is_attacking = TRUE, !.attack_state_frames = 0, !.can_act = FALSE]

\* Character.perform_attack
BasePerformAttack(c, direction) ==
    IF Busy(c) THEN c
    ELSE LET c1 == BeginAttack(c)
             a == BaseAttack(direction)
             c2 == IF a = NoAttack THEN c1
                   ELSE [change_state(c1, AttackState(direction)) EXCEPT !.current_attack = a]
         IN [c2 EXCEPT !.attack_hitbox_created = FALSE]

\* Warrior.perform_attack
WarriorPerformAttack(c, direction) ==
    IF Busy(c) THEN c
    ELSE LET c1 == BeginAttack(c)
             a == WarriorAttack(direction)
             c1s == IF direction = "side" THEN [c1 EXCEPT !.vx = 0] ELSE c1
             c2 == IF a = NoAttack THEN c1
                   ELSE [change_state(c1s, AttackState(direction)) EXCEPT !.current_attack = a]
         IN [c2 EXCEPT !.attack_hitbox_created = FALSE]

\* Speedster.perform_attack
SpeedsterPerformAttack(c, direction) ==
    IF Busy(c) THEN c
    ELSE LET c1 == BeginAttack(c)
             a == SpeedsterAttack(direction)
             load == [change_state(c1, AttackState(direction)) EXCEPT !.current_attack = a]
         IN CASE direction = "side" ->
                    IF c.side_attack_cooldown > 0 THEN c1
                    ELSE [load EXCEPT !.attack_hitbox_created = FALSE]
              [] direction = "side_special" ->
                    IF c.side_special_cooldown > 0 THEN c1
                    ELSE [load EXCEPT !.vx = IF c.facing_right THEN 18000 ELSE 0 - 18000,
                                      !.side_special_cooldown = SIDE_SPECIAL_COOLDOWN,
                                      !.attack_hitbox_created = FALSE]
              [] direction = "up" ->
                    IF c.up_special_cooldown > 0 THEN c1
                    ELSE [load EXCEPT !.is_flying_up = TRUE,
                                      !.flight_timer = FLIGHT_MAX_DURATION,
                                      !.up_special_cooldown = UP_SPECIAL_COOLDOWN,
                                      !.attack_hitbox_created = FALSE]
              [] direction \in {"neutral", "down"} ->
                    [load EXCEPT !.attack_hitbox_created = FALSE]
              [] OTHER -> [c1 EXCEPT !.attack_hitbox_created = FALSE]

\* Heavy.activate_super_armor
activate_super_armor(c, duration) ==
    [c EXCEPT !.has_super_armor = TRUE, !.armor_timer = duration]

\* Heavy.perform_attack
HeavyPerformAttack(c, direction) ==
    IF Busy(c) THEN c
    ELSE LET c1 == BeginAttack(c)
             a == HeavyAttack(direction)
             load == [change_state(c1, AttackState(direction)) EXCEPT !.current_attack = a]
             c2 == CASE direction = "up" ->
                            [change_state([c1 EXCEPT !.vy = 0 - Scale(JumpStrength("heavy"), 12, 10),
                                                      !.on_ground = FALSE,
                                                      !.is_ground_pounding = TRUE],
                                          "up_special")
                                EXCEPT !.current_attack = a,
                                       !.ground_pound_attack_data = TRUE,
                                       !.up_special_cooldown = UP_SPECIAL_COOLDOWN]
                      [] direction \in {"neutral", "side", "down"} -> load
                      [] OTHER -> c1
             \* self.current_attack.get(...) on None raises AttributeError
             Armor(d) == IF d.current_attack = NoAttack THEN [d EXCEPT !.raised = TRUE]
                         ELSE IF d.current_attack.has_armor
                              THEN activate_super_armor(d, d.current_attack.armor_frames)
                              ELSE d
             Finish(d) == IF d.raised THEN d ELSE [d EXCEPT !.attack_hitbox_created = FALSE]
         IN IF direction = "up" /\ c.up_special_cooldown > 0 THEN c1
            ELSE Finish(Armor(c2))

perform_attack_impl(c, direction) ==
    CASE c.arch = "warrior" -> WarriorPerformAttack(c, direction)
      [] c.arch = "speedster" -> SpeedsterPerformAttack(c, direction)
      [] c.arch = "heavy" -> HeavyPerformAttack(c, direction)
      [] OTHER -> BasePerformAttack(c, direction)

\* perform_attack, with the call recorded in the observation log
perform_attack(c, direction) ==
    Let(perform_attack_impl(c, direction), LAMBDA r :
       [r EXCEPT !.log.pa = Append(c.log.pa,
            [direction |-> direction, before |-> Snap(c), after |-> Snap(r)]),
                 !.hist = IF c.can_act /\ ~c.is_attacking
                          THEN [c.hist EXCEPT !.calls = c.hist.calls + 1,
                                              !.attacks = c.hist.attacks + 1,
                                              !.at_rest = c.on_ground /\ c.vx = 0 /\ c.vy = 0,
                                              !.clean = TRUE]
                          ELSE [c.hist EXCEPT !.calls = c.hist.calls + 1]])

\* a damage multiplier that reads the percentage in whole points
DamageMultiplierWholePoints(damage_percent) ==
    1000 + TDiv((damage_percent \div 2) * 1000, 70)

\* 1.0 + damage_percent / 70, plus ((damage_percent - 80) / 50) ** 1.5 above 100 %
DamageMultiplier(damage_percent) ==
    1000 + TDiv(damage_percent * 1000, 140)
         + (IF damage_percent > 200
            THEN ISqrt((damage_percent - 160) * (damage_percent - 160) * (damage_percent - 160))
            ELSE 0)

\* knockback component * damage_multiplier / weight
ScaledKnockback(k, damage_percent, weight) ==
    TDiv(k * DamageMultiplier(damage_percent), 100 * weight)

\* (damage + damage_percent * 0.02) * 0.01 seconds
HitstunDuration(damage, damage_percent) == 150 * damage + 3 * damage_percent

\* a take_damage that counts the percentage in whole points only
BaseTakeDamageWholePoints(c, damage, kx, ky) ==
    IF c.invincibility_timer > 0 \/ c.respawn_invincibility > 0 THEN c
    ELSE LET dp == c.damage_percent + 2 * (damage \div 2) + 2 * (c.damage_percent % 2)
             c1 == [c EXCEPT !.damage_percent = dp,
                             !.vx = c.vx + ScaledKnockback(kx, dp, Weight(c.arch)),
                             !.vy = c.vy + ScaledKnockback(ky, dp, Weight(c.arch)),
                             !.hit_stun_timer = HitstunDuration(damage, dp),
                             !.can_act = FALSE,
                             !.invincibility_timer = INVINCIBILITY]
         IN change_state(c1, "hit_stun")

\* a take_damage that sets the velocity to the scaled knockback instead of adding it
BaseTakeDamageOverwriting(c, damage, kx, ky) ==
    IF c.invincibility_timer > 0 \/ c.respawn_invincibility > 0 THEN c
    ELSE LET dp == c.damage_percent + damage
             c1 == [c EXCEPT !.damage_percent = dp,
                             !.vx = ScaledKnockback(kx, dp, Weight(c.arch)),
                             !.vy = ScaledKnockback(ky, dp, Weight(c.arch)),
                             !.hit_stun_timer = HitstunDuration(damage, dp),
                             !.can_act = FALSE,
                             !.invincibility_timer = INVINCIBILITY]
         IN change_state(c1, "hit_stun")

\* Character.take_damage
BaseTakeDamage(c, damage, kx, ky) ==
    IF c.invincibility_timer > 0 \/ c.respawn_invincibility > 0 THEN c
    ELSE LET dp == c.damage_percent + damage
             c1 == [c EXCEPT !.damage_percent = dp,
                             !.vx = c.vx + ScaledKnockback(kx, dp, Weight(c.arch)),
                             !.vy = c.vy + ScaledKnockback(ky, dp, Weight(c.arch)),
                             !.hit_stun_timer = HitstunDuration(damage, dp),
                             !.can_act = FALSE,
                             !.invincibility_timer = INVINCIBILITY]
         IN change_state(c1, "hit_stun")

\* a Heavy.take_damage whose armor absorbs at full damage whatever the stance
HeavyTakeDamageFull(c, damage, kx, ky) ==
    IF c.has_super_armor
    THEN [c EXCEPT !.damage_percent = c.damage_percent + damage]
    ELSE BaseTakeDamage(c, damage, kx, ky)

\* Heavy.take_damage
HeavyTakeDamage(c, damage, kx, ky) ==
    IF c.has_super_armor
    THEN [c EXCEPT !.damage_percent = c.damage_percent + TDiv(damage * c.damage_multiplier, 2)]
    ELSE BaseTakeDamage(c, damage, kx, ky)

take_damage_impl(c, damage, kx, ky) ==
    IF c.arch = "heavy" THEN HeavyTakeDamage(c, damage, kx, ky)
    ELSE BaseTakeDamage(c, damage, kx, ky)

\* take_damage, with the call recorded in the observation log
take_damage(c, damage, kx, ky) ==
    Let(take_damage_impl(c, damage, kx, ky), LAMBDA r :
       [r EXCEPT !.log.td = Append(c.log.td,
            [damage |-> damage, kx |-> kx, ky |-> ky,
             before |-> Snap(c), after |-> Snap(r)]),
                 !.hist.clean = FALSE,
                 !.hist.hits = c.hist.hits + 1])

\* a lose_life that takes every stock at once
lose_life_all(c) ==
    [c EXCEPT !.lives = 0, !.damage_percent = 0, !.log.lost = c.log.lost + 1,
              !.hist.clean = FALSE]

\* a lose_life that halves the damage instead of clearing it
lose_life_halved(c) ==
    [c EXCEPT !.lives = c.lives - 1, !.damage_percent = c.damage_percent \div 2,
              !.log.lost = c.log.lost + 1, !.hist.clean = FALSE]

\* Character.lose_life
lose_life(c) ==
    [c EXCEPT !.lives = c.lives - 1, !.damage_percent = 0, !.log.lost = c.log.lost + 1,
              !.hist.clean = FALSE]


-----------------------------------------------------------------------------
(* Input snapshot of one player for one tick (PlayerInput) *)

Input(l, r, u, d, a, g, pu, pa) ==
    [ left |-> l, right |-> r, up |-> u, down |-> d, attack |-> a, grab |-> g,
      prev_up |-> pu, prev_attack |-> pa ]

NoInput == Input(FALSE, FALSE, FALSE, FALSE, FALSE, FALSE, FALSE, FALSE)

\* PlayerInput.was_just_pressed for the two actions the characters ask about
JustPressedUp(i) == i.up /\ ~i.prev_up
JustPressedAttack(i) == i.attack /\ ~i.prev_attack

\* PlayerInput.get_attack_direction
get_attack_direction(i) ==
    LET d == IF i.up THEN "up"
             ELSE IF i.down THEN "down"
             ELSE IF i.left \/ i.right THEN "side"
             ELSE "neutral"
    IN IF i.grab
       THEN CASE d = "up" -> "up_special" [] d = "down" -> "down_special"
              [] d = "side" -> "side_special" [] OTHER -> "neutral_special"
       ELSE d

\* PlayerInput.horizontal_axis (keyboard): -1, 0 or 1
get_horizontal_axis(i) == (IF i.right THEN 1 ELSE 0) - (IF i.left THEN 1 ELSE 0)

-----------------------------------------------------------------------------
(* Character: movement and input *)

\* Character.apply_ground_movement
apply_ground_movement(c, h) ==
    IF h # 0
    THEN LET walk == MaxWalkSpeed(c)
             target == IF Abs(c.vx) > Scale(walk, 8, 10) /\ h * c.vx > 0
                       THEN h * MaxRunSpeed(c) ELSE h * walk
             Accelerate(speed_diff) ==
                c.vx + Sign(speed_diff)
                        * Min(Abs(speed_diff),
                              IF Abs(speed_diff) > 100 THEN GroundAcceleration(c)
                              ELSE GROUND_DECELERATION)
             Walk(v) ==
                IF Abs(v) > Scale(walk, 12, 10) THEN change_state([c EXCEPT !.vx = v], "running")
                ELSE IF Abs(v) > 500 THEN change_state([c EXCEPT !.vx = v], "walking")
                ELSE [c EXCEPT !.vx = v]
         IN Walk(Accelerate(target - c.vx))
    ELSE IF Abs(c.vx) > 100
         THEN [c EXCEPT !.vx = Scale(c.vx, MILLI - GROUND_DECELERATION, MILLI)]
         ELSE IF c.current_state \in {"walking", "running"}
              THEN change_state([c EXCEPT !.vx = 0], "idle")
              ELSE [c EXCEPT !.vx = 0]

\* Character.apply_air_movement
apply_air_movement(c, h) ==
    IF h # 0
    THEN LET speed_diff == h * Scale(MaxWalkSpeed(c), 8, 10) - c.vx
         IN [c EXCEPT !.vx = c.vx + Sign(speed_diff) * Min(Abs(speed_diff), AIR_ACCELERATION)]
    ELSE IF Abs(c.vx) > 100
         THEN [c EXCEPT !.vx = Scale(c.vx, MILLI - AIR_DECELERATION, MILLI)]
         ELSE c

\* Character.handle_input: facing, movement, jump, jump cut, crouch, attack
handle_input(c, i) ==
    LET h == get_horizontal_axis(i)
        \* left is tested first, right second
        Face(d) == [d EXCEPT !.facing_right = IF i.right THEN TRUE
                                              ELSE IF i.left THEN FALSE ELSE d.facing_right]
        Move(d) == IF d.on_ground THEN apply_ground_movement(d, h)
                   ELSE apply_air_movement(d, h)
        Jump(d) == IF JustPressedUp(i) /\ (d.on_ground \/ d.coyote_time > 0)
                   THEN change_state([d EXCEPT !.vy = 0 - (IF ~i.up THEN SHORT_HOP_STRENGTH
                                                           ELSE JumpStrength(d.arch)),
                                               !.on_ground = FALSE,
                                               !.can_jump = FALSE,
                                               !.coyote_time = 0], "jumping")
                   ELSE d
        CutJump(d) == IF ~i.up /\ d.vy < 0 /\ d.current_state = "jumping"
                      THEN [d EXCEPT !.vy = Scale(d.vy, 5, 10)] ELSE d
        Crouch(d) == IF i.down /\ d.on_ground
                     THEN (IF d.current_state # "crouching" THEN change_state(d, "crouching")
                           ELSE d)
                     ELSE IF d.current_state = "crouching" THEN change_state(d, "idle")
                     ELSE d
        Attack(d) == IF JustPressedAttack(i) THEN perform_attack(d, get_attack_direction(i))
                     ELSE d
    IN Attack(Crouch(CutJump(Jump(Move(Face(c))))))

-----------------------------------------------------------------------------
(* Character: hitboxes and attack timing *)

Hitbox(x, y, w, h, damage, knockback, angle, frames, type) ==
    [ x |-> x, y |-> y, width |-> w, height |-> h,
      damage |-> damage, knockback |-> knockback, knockback_angle |-> angle,
      frames_remaining |-> frames, attack_type |-> type,
      is_multihit |-> FALSE, hit_interval |-> 4, last_hit_frame |-> 0,
      is_projectile |-> FALSE, velocity_x |-> 0, velocity_y |-> 0, lifetime |-> 0 ]

AddHitbox(c, hb) ==
    [c EXCEPT !.active_hitboxes = Append(c.active_hitboxes, hb),
              !.log.created = c.log.created + 1,
              !.hist.created = c.hist.created + 1]

Facing(c) == IF c.facing_right THEN 1 ELSE 0 - 1

\* Character.create_attack_hitbox with Character.get_knockback_angle
BaseCreateAttackHitbox(c) ==
    LET a == c.current_attack
        ox == IF a.type \in {"up", "down"} THEN 0 ELSE 60 * Facing(c)
        oy == CASE a.type = "up" -> 0 - 80 [] a.type = "down" -> 0 - 10 [] OTHER -> 0 - 40
        angle == CASE a.type = "up" -> 0 - 75 [] a.type = "down" -> 45 [] OTHER -> 0
    IN IF a = NoAttack THEN c
       ELSE AddHitbox(c, Hitbox(c.px + ox * MILLI, c.py + oy * MILLI, 50, 50,
                                a.damage, a.knockback, angle, a.active_frames, a.type))

\* Warrior.create_projectile
create_projectile(c) ==
    LET a == c.current_attack
        hb == Hitbox(c.px + 40 * Facing(c) * MILLI, c.py - 40 * MILLI, 30, 20,
                     a.damage, a.knockback, 0, 0, "energy_projectile")
    IN AddHitbox(c, [hb EXCEPT !.is_projectile = TRUE,
                               !.velocity_x = 8 * Facing(c) * MILLI,
                               !.lifetime = 60])

\* Warrior.create_attack_hitbox with Warrior.get_warrior_knockback_angle
WarriorCreateAttackHitbox(c) ==
    LET a == c.current_attack
        ox == IF a.type = "rising_slash" THEN 20 * Facing(c) ELSE a.range * Facing(c)
        oy == CASE a.type = "rising_slash" -> 0 - 100
                [] a.type = "sword_thrust" -> 0 - 50
                [] OTHER -> 0 - 40
        angle == CASE a.type = "rising_slash" -> 0 - 80
                   [] a.type = "sword_thrust" -> 0 - 10
                   [] OTHER -> 0
    IN IF a = NoAttack THEN c
       ELSE IF a.type = "energy_projectile" THEN create_projectile(c)
       ELSE AddHitbox(c, Hitbox(c.px + ox * MILLI, c.py + oy * MILLI, 60, 50,
                                a.damage, a.knockback, angle, a.active_frames, a.type))

\* Speedster.apply_speed_boost
apply_speed_boost(c) ==
    IF c.speed_boost_active THEN c
    ELSE [c EXCEPT !.speed_boost_active = TRUE,
                   !.speed_boost_timer = c.current_attack.buff_duration]

\* Speedster.create_attack_hitbox with Speedster.get_speedster_knockback_angle
SpeedsterCreateAttackHitbox(c) ==
    LET a == c.current_attack
        angle == IF a.type = "dash_attack" THEN 0 - 5 ELSE 0
        hb == Hitbox(c.px + a.range * Facing(c) * MILLI, c.py - 35 * MILLI, 50, 45,
                     a.damage, a.knockback, angle, a.active_frames, a.type)
    IN IF a = NoAttack THEN c
       ELSE IF a.type = "speed_boost" THEN apply_speed_boost(c)
       ELSE AddHitbox(c, [hb EXCEPT !.is_multihit = a.is_multihit,
                                    !.hit_interval = a.hit_interval,
                                    !.last_hit_frame = 0])

\* Heavy.apply_armor_stance
apply_armor_stance(c) ==
    [c EXCEPT !.power_stance_active = TRUE,
              !.power_stance_timer = c.current_attack.stance_duration,
              !.damage_multiplier = 1,
              !.has_super_armor = TRUE,
              !.armor_timer = c.current_attack.stance_duration]

\* Heavy.create_attack_hitbox with Heavy.get_heavy_knockback_angle
HeavyCreateAttackHitbox(c) ==
    LET a == c.current_attack
        angle == IF a.type = "ground_pound" THEN 0 - 60 ELSE 0
    IN IF a = NoAttack THEN c
       ELSE IF a.type = "armor_stance" THEN apply_armor_stance(c)
       ELSE IF a.type = "hammer_slam" THEN [c EXCEPT !.attack_hitbox_created = TRUE]
       ELSE AddHitbox(c, Hitbox(c.px + a.range * Facing(c) * MILLI, c.py - 50 * MILLI,
                                70, 60, a.damage, a.knockback, angle,
                                a.active_frames, a.type))

\* Heavy.create_ground_pound_hitbox
create_ground_pound_hitbox(c) ==
    IF ~c.ground_pound_attack_data THEN c
    ELSE LET a == HeavyAttack("up")
         IN [AddHitbox(c, Hitbox(c.px, c.py - 20 * MILLI, 120, 80,
                                 a.damage, a.knockback, 45, 10, "ground_pound"))
                EXCEPT !.ground_pound_attack_data = FALSE]

create_attack_hitbox(c) ==
    CASE c.arch = "warrior" -> WarriorCreateAttackHitbox(c)
      [] c.arch = "speedster" -> SpeedsterCreateAttackHitbox(c)
      [] c.arch = "heavy" -> HeavyCreateAttackHitbox(c)
      [] OTHER -> BaseCreateAttackHitbox(c)

\* Character.end_attack
BaseEndAttack(c) ==
    LET c1 == [c EXCEPT !.is_attacking = FALSE, !.can_act = TRUE,
                        !.current_attack = NoAttack, !.attack_hitbox_created = FALSE]
    IN IF c1.on_ground THEN change_state(c1, "idle") ELSE change_state(c1, "falling")

\* an end_attack that leaves the attack running
end_attack_skipped(c) == c

\* Heavy.end_attack overrides it
end_attack(c) ==
    IF c.arch = "heavy" /\ c.is_ground_pounding THEN c ELSE BaseEndAttack(c)

\* update_attack_timing without the attack_hitbox_created test: a hitbox on
\* every active frame
update_attack_timing_unflagged(c) ==
    LET a == c.current_attack
        f == c.attack_state_frames
    IN IF a = NoAttack THEN c
       ELSE IF f < a.startup_frames THEN c
       ELSE IF f < a.startup_frames + a.active_frames
            THEN [create_attack_hitbox(c) EXCEPT !.attack_hitbox_created = TRUE]
       ELSE IF f >= a.startup_frames + a.active_frames + a.recovery_frames
            THEN end_attack(c)
       ELSE c

\* Character.update_attack_timing
update_attack_timing(c) ==
    LET a == c.current_attack
        f == c.attack_state_frames
    IN IF a = NoAttack THEN c
       ELSE IF f < a.startup_frames THEN c
       ELSE IF f < a.startup_frames + a.active_frames
            THEN (IF ~c.attack_hitbox_created
                  THEN [create_attack_hitbox(c) EXCEPT !.attack_hitbox_created = TRUE]
                  ELSE c)
       ELSE IF f >= a.startup_frames + a.active_frames + a.recovery_frames
            THEN end_attack(c)
       ELSE c


-----------------------------------------------------------------------------
(* Character.update and its overrides *)

\* Character.update_physics
update_physics(c) ==
    LET t == IF ~c.on_ground /\ c.coyote_time > 0
             THEN Max(0, c.coyote_time - DT) ELSE c.coyote_time
        c1 == [c EXCEPT !.coyote_time = t]
    IN IF c1.on_ground /\ c1.current_state = "falling"
       THEN [change_state(c1, "landing") EXCEPT !.can_jump = TRUE]
       ELSE c1

\* Character.update_state_machine
update_state_machine(c) ==
    LET Landed(d) == IF d.current_state = "landing" /\ d.state_timer > LANDING_LAG
                     THEN [change_state(d, "idle") EXCEPT !.can_act = TRUE] ELSE d
        Apex(d) == IF d.current_state = "jumping" /\ d.vy > 0
                   THEN change_state(d, "falling") ELSE d
        Recover(d) == IF d.current_state = "hit_stun" /\ d.hit_stun_timer <= 0
                      THEN (IF d.on_ground
                            THEN change_state([d EXCEPT !.can_act = TRUE], "idle")
                            ELSE change_state([d EXCEPT !.can_act = TRUE], "falling"))
                      ELSE d
    IN Recover(Apex(Landed(c)))

\* Character.update: timers, input, physics flags, state machine, attack timing
BaseUpdate(c, i) ==
    LET Timers(d) ==
            [d EXCEPT !.state_timer = Min(d.state_timer + DT, STATE_TIMER_CAP),
                      !.hit_stun_timer = Max(0, d.hit_stun_timer - DT),
                      !.invincibility_timer = Max(0, d.invincibility_timer - DT),
                      !.coyote_time = Max(0, d.coyote_time - DT),
                      !.respawn_invincibility = Max(0, d.respawn_invincibility - 1)]
        Act(d) == IF d.can_act /\ d.hit_stun_timer <= 0 THEN handle_input(d, i) ELSE d
        Attack(d) ==
            IF d.raised THEN d
            ELSE IF d.is_attacking
            THEN update_attack_timing([d EXCEPT !.attack_state_frames =
                                            Min(d.attack_state_frames + 1, ATTACK_FRAMES_CAP)])
            ELSE d
    IN Attack(update_state_machine(update_physics(Act(Timers(c)))))

RECURSIVE MoveProjectiles(_)
\* Warrior.update_projectiles
MoveProjectiles(hs) ==
    IF hs = << >> THEN << >>
    ELSE LET hb == Head(hs)
             m == [hb EXCEPT !.x = hb.x + hb.velocity_x, !.y = hb.y + hb.velocity_y,
                             !.lifetime = hb.lifetime - 1]
         IN IF ~hb.is_projectile THEN <<hb>> \o MoveProjectiles(Tail(hs))
            ELSE IF m.lifetime <= 0 \/ m.x < (0 - 100) * MILLI \/ m.x > 1380 * MILLI
            THEN MoveProjectiles(Tail(hs))
            ELSE <<m>> \o MoveProjectiles(Tail(hs))

\* Warrior.update
WarriorUpdate(c, i) ==
    LET Projectiles(d, hs) ==
            [d EXCEPT !.active_hitboxes = hs,
                      !.hist.removed = d.hist.removed + Len(d.active_hitboxes) - Len(hs)]
        Updated(d) == Projectiles(d, MoveProjectiles(d.active_hitboxes))
    IN Updated(BaseUpdate(c, i))

\* Speedster.update_multihit_attacks
update_multihit_attacks(c) ==
    [c EXCEPT !.active_hitboxes =
        [k \in DOMAIN c.active_hitboxes |->
            LET hb == c.active_hitboxes[k]
            IN IF hb.is_multihit /\ c.attack_state_frames - hb.last_hit_frame >= hb.hit_interval
               THEN [hb EXCEPT !.last_hit_frame = c.attack_state_frames]
               ELSE hb]]

\* Speedster.update: cooldowns, flight, dash friction, speed boost, then
\* Character.update and the multi-hit pass
SpeedsterUpdate(c, i) ==
    LET Dec(n) == IF n > 0 THEN n - 1 ELSE n
        Cooldowns(d) == [d EXCEPT !.up_special_cooldown = Dec(d.up_special_cooldown),
                                  !.side_attack_cooldown = Dec(d.side_attack_cooldown),
                                  !.side_special_cooldown = Dec(d.side_special_cooldown)]
        Flight(d) == IF ~d.is_flying_up THEN d
                     ELSE IF i.attack /\ d.flight_timer > 0
                     THEN change_state([d EXCEPT !.vy = 0 - AIR_SPEED,
                                                 !.flight_timer = d.flight_timer - 1,
                                                 !.on_ground = FALSE], "up_special")
                     ELSE end_attack([d EXCEPT !.is_flying_up = FALSE])
        DashFriction(d) ==
            IF d.is_attacking /\ d.current_attack.type = "dash_attack"
            THEN [d EXCEPT !.vx = IF Abs(Scale(d.vx, 85, 100)) < MILLI THEN 0
                                  ELSE Scale(d.vx, 85, 100)]
            ELSE d
        Boost(d) == IF d.speed_boost_active
                    THEN [d EXCEPT !.speed_boost_timer = d.speed_boost_timer - 1,
                                   !.speed_boost_active = d.speed_boost_timer - 1 > 0]
                    ELSE d
    IN update_multihit_attacks(BaseUpdate(Boost(DashFriction(Flight(Cooldowns(c)))), i))

\* Heavy.end_power_stance
end_power_stance(c) ==
    [c EXCEPT !.power_stance_active = FALSE, !.damage_multiplier = 2,
              !.has_super_armor = FALSE]

\* Heavy.update: cooldown, armor timer, power stance, ground pound landing,
\* body slam, then Character.update
HeavyUpdate(c, i) ==
    LET h == get_horizontal_axis(i)
        Cooldown(d) == [d EXCEPT !.up_special_cooldown =
                                    IF d.up_special_cooldown > 0 THEN d.up_special_cooldown - 1
                                    ELSE d.up_special_cooldown]
        Armor(d) == IF d.has_super_armor /\ d.armor_timer > 0
                    THEN [d EXCEPT !.armor_timer = d.armor_timer - 1,
                                   !.has_super_armor = d.armor_timer - 1 > 0]
                    ELSE d
        Stance(d) == IF d.power_stance_active /\ d.power_stance_timer > 0
                     THEN (IF d.power_stance_timer - 1 <= 0
                           THEN end_power_stance([d EXCEPT !.power_stance_timer =
                                                              d.power_stance_timer - 1])
                           ELSE [d EXCEPT !.power_stance_timer = d.power_stance_timer - 1])
                     ELSE d
        Pound(d) == IF d.is_ground_pounding /\ d.on_ground
                    THEN end_attack([create_ground_pound_hitbox(d)
                                        EXCEPT !.is_ground_pounding = FALSE])
                    ELSE d
        Slam(d) == IF d.is_attacking /\ d.current_attack.is_body_slam
                   THEN IF (d.facing_right /\ h < 0) \/ (~d.facing_right /\ h > 0)
                        THEN end_attack([d EXCEPT !.vx = 0])
                        ELSE [d EXCEPT !.vx = 9 * MILLI * Facing(d)]
                   ELSE d
    IN BaseUpdate(Slam(Pound(Stance(Armor(Cooldown(c))))), i)

\* character.update(delta_time, player_input, stage), dispatched on the class
update(c, i) ==
    CASE c.arch = "warrior" -> WarriorUpdate(c, i)
      [] c.arch = "speedster" -> SpeedsterUpdate(c, i)
      [] c.arch = "heavy" -> HeavyUpdate(c, i)
      [] OTHER -> BaseUpdate(c, i)


-----------------------------------------------------------------------------
(* Stage gravity *)

\* Battlefield.apply_stage_gravity
BattlefieldGravity(c) ==
    LET stage_gravity == IF c.py < 500 * MILLI THEN 720 ELSE 800
        vy == c.vy + stage_gravity
    IN IF ~c.on_ground
       THEN [c EXCEPT !.vy = IF vy > 18 * MILLI THEN 18 * MILLI ELSE vy,
                      !.vx = Scale(c.vx, 980, MILLI)]
       ELSE c

\* Plains.apply_stage_gravity
PlainsGravity(c, wind_effect) ==
    LET stage_gravity == IF c.px < 100 * MILLI \/ c.px > 1300 * MILLI THEN 966 ELSE 920
        vy == c.vy + stage_gravity
    IN IF ~c.on_ground
       THEN [c EXCEPT !.vy = IF vy > 16 * MILLI THEN 16 * MILLI ELSE vy,
                      !.vx = Scale(c.vx, 974, MILLI) + wind_effect]
       ELSE [c EXCEPT !.vx = Scale(c.vx, 920, MILLI)]

apply_stage_gravity(c, st) ==
    IF st.name = "battlefield" THEN BattlefieldGravity(c) ELSE PlainsGravity(c, st.wind_effect)

-----------------------------------------------------------------------------
(* PhysicsManager: stage collision and blast zones *)

NoKO == [direction |-> "none", x |-> 0, y |-> 0]

\* PhysicsManager.check_platform_landing; the result carries the returned flag
check_platform_landing(c, platform) ==
    LET char_bottom == c.py
        char_left == c.px - (WIDTH * MILLI) \div 2
        char_right == c.px + (WIDTH * MILLI) \div 2
        vertical_collision == /\ char_bottom >= (platform.y - 5) * MILLI
                              /\ char_bottom <= (platform.y + 10) * MILLI
        horizontal_collision == /\ char_right > (platform.x + 5) * MILLI
                                /\ char_left < (platform.x + platform.width - 5) * MILLI
    IN IF vertical_collision /\ horizontal_collision
       THEN [ landed |-> TRUE,
              c |-> IF c.vy > 0
                    THEN [c EXCEPT !.py = platform.y * MILLI, !.vy = 0, !.on_ground = TRUE]
                    ELSE [c EXCEPT !.on_ground = TRUE] ]
       ELSE [ landed |-> FALSE, c |-> c ]

RECURSIVE FirstLanding(_, _, _)
FirstLanding(c, platforms, k) ==
    IF k > Len(platforms) THEN [landed |-> FALSE, c |-> c]
    ELSE LET r == check_platform_landing(c, platforms[k])
         IN IF r.landed THEN r ELSE FirstLanding(c, platforms, k + 1)

\* PhysicsManager.handle_modern_stage_collision
handle_modern_stage_collision(c, st) ==
    LET Result(r) ==
            IF r.landed THEN [r.c EXCEPT !.on_ground = TRUE]
            ELSE IF c.vy >= 0 THEN change_state([c EXCEPT !.on_ground = FALSE], "falling")
            ELSE [c EXCEPT !.on_ground = FALSE]
    IN Result(FirstLanding(c, st.platforms, 1))

\* a blast-zone test that looks at the vertical bounds first
BlastDirectionVerticalFirst(x, y, st) ==
    IF y < st.top_blast_zone * MILLI THEN "top"
    ELSE IF y > st.bottom_blast_zone * MILLI THEN "bottom"
    ELSE IF x < st.left_blast_zone * MILLI THEN "left"
    ELSE IF x > st.right_blast_zone * MILLI THEN "right"
    ELSE "none"

\* the if/elif chain of PhysicsManager.check_blast_zone_ko
BlastDirection(x, y, st) ==
    IF x < st.left_blast_zone * MILLI THEN "left"
    ELSE IF x > st.right_blast_zone * MILLI THEN "right"
    ELSE IF y < st.top_blast_zone * MILLI THEN "top"
    ELSE IF y > st.bottom_blast_zone * MILLI THEN "bottom"
    ELSE "none"

\* PhysicsManager.check_blast_zone_ko: ko is this player's entry of the KO map
check_blast_zone_ko(c, st, ko) ==
    LET ko_direction == BlastDirection(c.px, c.py, st)
    IN IF ko_direction # "none" /\ ko.direction = "none"
       THEN [direction |-> ko_direction, x |-> c.px, y |-> c.py]
       ELSE ko

RECURSIVE MoveSteps(_, _, _, _, _, _)
\* the sub-step loop of PhysicsManager.update_character_physics: move by one
\* step, PhysicsManager.handle_stage_collision, check_blast_zone_ko, n times
MoveSteps(c, st, ko, n, step_x, step_y) ==
    IF n = 0 THEN [c |-> c, ko |-> ko]
    ELSE LET Logged(moved, d) ==
                [d EXCEPT !.log.path = Append(d.log.path,
                    [x |-> d.px, y |-> d.py, moved_y |-> moved.py, vy |-> moved.vy])]
             Collided(moved) == Logged(moved, handle_modern_stage_collision(moved, st))
             Rest(d) == MoveSteps(d, st, check_blast_zone_ko(d, st, ko), n - 1, step_x, step_y)
         IN Strict(Collided([c EXCEPT !.px = c.px + step_x, !.py = c.py + step_y]), Rest)

\* PhysicsManager.update_character_physics
update_character_physics(c, st, ko) ==
    LET Move(d, steps) == MoveSteps(d, st, ko, steps, TDiv(d.vx, steps), TDiv(d.vy, steps))
        Steps(d) == Move(d, (Max(Abs(d.vx), Abs(d.vy)) \div (10 * MILLI)) + 1)
    IN Steps(apply_stage_gravity(c, st))


-----------------------------------------------------------------------------
(* PhysicsManager: combat *)

\* pygame.Rect built from floats keeps their integer parts
Rect(x, y, w, h) == [x |-> ToInt(x), y |-> ToInt(y), w |-> w, h |-> h]

\* pygame.Rect.colliderect
colliderect(a, b) ==
    /\ a.x < b.x + b.w
    /\ a.y < b.y + b.h
    /\ a.x + a.w > b.x
    /\ a.y + a.h > b.y

\* Character.get_collision_rect
get_collision_rect(c) ==
    Rect(c.px - (WIDTH \div 2) * MILLI, c.py - HEIGHT * MILLI, WIDTH, HEIGHT)

HitboxRect(hb) ==
    Rect(hb.x - (hb.width \div 2) * MILLI, hb.y - (hb.height \div 2) * MILLI,
         hb.width, hb.height)

\* abs(math.cos(math.radians(angle))) and math.sin(math.radians(angle)), in 1/1000
AbsCos(angle) ==
    CASE angle = 0 -> 1000 [] angle = 0 - 5 -> 996 [] angle = 0 - 10 -> 985
      [] angle = 0 - 20 -> 940 [] angle = 45 -> 707 [] angle = 0 - 45 -> 707
      [] angle = 0 - 60 -> 500 [] angle = 0 - 75 -> 259 [] angle = 0 - 80 -> 174
      [] OTHER -> 0

SinOf(angle) ==
    CASE angle = 0 -> 0 [] angle = 0 - 5 -> 0 - 87 [] angle = 0 - 10 -> 0 - 174
      [] angle = 0 - 20 -> 0 - 342 [] angle = 45 -> 707 [] angle = 0 - 45 -> 0 - 707
      [] angle = 0 - 60 -> 0 - 866 [] angle = 0 - 75 -> 0 - 966 [] angle = 0 - 80 -> 0 - 985
      [] OTHER -> 0 - 1000

\* a horizontal knockback that follows the attacker's facing
KnockbackXFacing(attacker, target, force, angle) ==
    Facing(attacker) * force * AbsCos(angle)

KnockbackX(attacker, target, force, angle) ==
    (IF attacker.px < target.px THEN 1 ELSE 0 - 1) * force * AbsCos(angle)

KnockbackY(force, angle) == 0 - force * SinOf(angle)

\* PhysicsManager.apply_hit: the target after the hit
apply_hit(attacker, target, damage, force, angle) ==
    take_damage(target, damage, KnockbackX(attacker, target, force, angle),
                KnockbackY(force, angle))

\* a body-slam loop that lets the attack go on after its hit
BodySlamContinuing(cs, p) ==
    LET attacker == cs[p]
        defender == cs[Other(p)]
    IN IF attacker.is_attacking /\ attacker.current_attack.is_body_slam
          /\ colliderect(get_collision_rect(attacker), get_collision_rect(defender))
       THEN LET d == apply_hit(attacker, defender, attacker.current_attack.damage,
                               attacker.current_attack.knockback, 0 - 10)
            IN [cs EXCEPT ![Other(p)] = d, ![p] = [attacker EXCEPT !.vx = Scale(attacker.vx, 2, 10)]]
       ELSE cs

\* the body-slam loop of PhysicsManager.check_combat_collisions for one attacker
BodySlam(cs, p) ==
    LET attacker == cs[p]
        defender == cs[Other(p)]
    IN IF attacker.is_attacking /\ attacker.current_attack.is_body_slam
          /\ colliderect(get_collision_rect(attacker), get_collision_rect(defender))
       THEN LET d == apply_hit(attacker, defender, attacker.current_attack.damage,
                               attacker.current_attack.knockback, 0 - 10)
                a == end_attack(attacker)
            IN [cs EXCEPT ![Other(p)] = d, ![p] = [a EXCEPT !.vx = Scale(a.vx, 2, 10)]]
       ELSE cs

RECURSIVE HitboxPassKeeping(_, _, _, _)
\* a hitbox loop that keeps a single-hit hitbox after its hit
HitboxPassKeeping(attacker, defender, todo, kept) ==
    IF todo = << >>
    THEN [attacker |-> [attacker EXCEPT !.active_hitboxes = kept], defender |-> defender]
    ELSE LET h0 == Head(todo)
             hb == IF h0.is_projectile
                   THEN [h0 EXCEPT !.x = h0.x + h0.velocity_x, !.y = h0.y + h0.velocity_y,
                                   !.lifetime = h0.lifetime - 1]
                   ELSE [h0 EXCEPT !.frames_remaining = h0.frames_remaining - 1]
             expired == IF h0.is_projectile
                        THEN \/ hb.lifetime <= 0
                             \/ hb.x < (0 - 100) * MILLI
                             \/ hb.x > 1380 * MILLI
                             \/ hb.y > 800 * MILLI
                        ELSE hb.frames_remaining <= 0
             overlap == colliderect(HitboxRect(hb), get_collision_rect(defender))
         IN IF expired
            THEN HitboxPassKeeping(Removed(attacker), defender, Tail(todo), kept)
            ELSE IF ~overlap
            THEN HitboxPassKeeping(attacker, defender, Tail(todo), Append(kept, hb))
            ELSE IF hb.is_multihit
            THEN IF attacker.attack_state_frames - hb.last_hit_frame >= hb.hit_interval
                 THEN HitboxPassKeeping(Tested(attacker),
                                 apply_hit(attacker, defender, hb.damage, hb.knockback,
                                           hb.knockback_angle),
                                 Tail(todo),
                                 Append(kept, [hb EXCEPT !.last_hit_frame =
                                                            attacker.attack_state_frames]))
                 ELSE HitboxPassKeeping(Tested(attacker), defender, Tail(todo), Append(kept, hb))
            ELSE HitboxPassKeeping(Tested(attacker),
                                   apply_hit(attacker, defender, hb.damage, hb.knockback,
                                             hb.knockback_angle),
                                   Tail(todo), Append(kept, hb))

RECURSIVE HitboxPassOwnerMoves(_, _, _, _)
\* a hitbox loop that leaves moving and ageing a projectile to its owner's update
HitboxPassOwnerMoves(attacker, defender, todo, kept) ==
    IF todo = << >>
    THEN [attacker |-> [attacker EXCEPT !.active_hitboxes = kept], defender |-> defender]
    ELSE LET h0 == Head(todo)
             hb == IF h0.is_projectile
                   THEN h0
                   ELSE [h0 EXCEPT !.frames_remaining = h0.frames_remaining - 1]
             expired == IF h0.is_projectile
                        THEN \/ hb.lifetime <= 0
                             \/ hb.x < (0 - 100) * MILLI
                             \/ hb.x > 1380 * MILLI
                             \/ hb.y > 800 * MILLI
                        ELSE hb.frames_remaining <= 0
             overlap == colliderect(HitboxRect(hb), get_collision_rect(defender))
         IN IF expired
            THEN HitboxPassOwnerMoves(Removed(attacker), defender, Tail(todo), kept)
            ELSE IF ~overlap
            THEN HitboxPassOwnerMoves(attacker, defender, Tail(todo), Append(kept, hb))
            ELSE IF hb.is_multihit
            THEN IF attacker.attack_state_frames - hb.last_hit_frame >= hb.hit_interval
                 THEN HitboxPassOwnerMoves(Tested(attacker),
                                 apply_hit(attacker, defender, hb.damage, hb.knockback,
                                           hb.knockback_angle),
                                 Tail(todo),
                                 Append(kept, [hb EXCEPT !.last_hit_frame =
                                                            attacker.attack_state_frames]))
                 ELSE HitboxPassOwnerMoves(Tested(attacker), defender, Tail(todo), Append(kept, hb))
            ELSE HitboxPassOwnerMoves(Removed(attacker),
                            apply_hit(attacker, defender, hb.damage, hb.knockback,
                                      hb.knockback_angle),
                            Tail(todo), kept)

RECURSIVE HitboxPass(_, _, _, _)
\* the hitbox loop of PhysicsManager.check_combat_collisions for one attacker:
\* hitboxes still to visit, hitboxes kept so far, the defender
HitboxPass(attacker, defender, todo, kept) ==
    IF todo = << >>
    THEN [attacker |-> [attacker EXCEPT !.active_hitboxes = kept], defender |-> defender]
    ELSE LET h0 == Head(todo)
             hb == IF h0.is_projectile
                   THEN [h0 EXCEPT !.x = h0.x + h0.velocity_x, !.y = h0.y + h0.velocity_y,
                                   !.lifetime = h0.lifetime - 1]
                   ELSE [h0 EXCEPT !.frames_remaining = h0.frames_remaining - 1]
             expired == IF h0.is_projectile
                        THEN \/ hb.lifetime <= 0
                             \/ hb.x < (0 - 100) * MILLI
                             \/ hb.x > 1380 * MILLI
                             \/ hb.y > 800 * MILLI
                        ELSE hb.frames_remaining <= 0
             overlap == colliderect(HitboxRect(hb), get_collision_rect(defender))
         IN IF expired
            THEN HitboxPass(Removed(attacker), defender, Tail(todo), kept)
            ELSE IF ~overlap
            THEN HitboxPass(attacker, defender, Tail(todo), Append(kept, hb))
            ELSE IF hb.is_multihit
            THEN IF attacker.attack_state_frames - hb.last_hit_frame >= hb.hit_interval
                 THEN HitboxPass(Tested(attacker),
                                 apply_hit(attacker, defender, hb.damage, hb.knockback,
                                           hb.knockback_angle),
                                 Tail(todo),
                                 Append(kept, [hb EXCEPT !.last_hit_frame =
                                                            attacker.attack_state_frames]))
                 ELSE HitboxPass(Tested(attacker), defender, Tail(todo), Append(kept, hb))
            ELSE HitboxPass(Removed(attacker),
                            apply_hit(attacker, defender, hb.damage, hb.knockback,
                                      hb.knockback_angle),
                            Tail(todo), kept)

HitboxLoop(cs, p) ==
    Let(HitboxPass(cs[p], cs[Other(p)], cs[p].active_hitboxes, << >>), LAMBDA r :
        [cs EXCEPT ![p] = r.attacker, ![Other(p)] = r.defender])

\* a combat pass in which a character hit by the first character's hitbox
\* loses its own turn
check_combat_collisions_first_wins(cs) ==
    Let(HitboxLoop(BodySlam(BodySlam(cs, 1), 2), 1), LAMBDA c1 :
        IF Len(c1[2].log.td) > Len(cs[2].log.td) THEN c1 ELSE HitboxLoop(c1, 2))

\* PhysicsManager.check_combat_collisions
check_combat_collisions(cs) ==
    HitboxLoop(HitboxLoop(BodySlam(BodySlam(cs, 1), 2), 1), 2)


-----------------------------------------------------------------------------
(* GameplayState *)

\* a respawn_player that leaves the velocity as the KO left it
respawn_player_keeping_velocity(c, st) ==
    [c EXCEPT !.px = st.spawn_points[c.player_id][1] * MILLI,
              !.py = st.spawn_points[c.player_id][2] * MILLI]

\* GameplayState.respawn_player
respawn_player(c, st) ==
    [c EXCEPT !.px = st.spawn_points[c.player_id][1] * MILLI,
              !.py = st.spawn_points[c.player_id][2] * MILLI,
              !.vx = 0, !.vy = 0]

\* GameplayState.update_respawn_timers, for one player
update_respawn_timer(g, p, st) ==
    IF g.rt[p] = Absent THEN g
    ELSE IF g.rt[p] - DT <= 0
         THEN [g EXCEPT !.rt[p] = Absent, !.cs[p] = respawn_player(g.cs[p], st)]
         ELSE [g EXCEPT !.rt[p] = g.rt[p] - DT]

\* a check_match_end that never ends the match
check_match_end_skipped(g) == g

\* GameplayState.check_match_end with transition_to_win_screen; the match timer
\* (180 s) cannot run out within MaxTicks
check_match_end(g) ==
    IF g.cs[1].lives <= 0 THEN [g EXCEPT !.gs = "win_screen", !.winner = 2]
    ELSE IF g.cs[2].lives <= 0 THEN [g EXCEPT !.gs = "win_screen", !.winner = 1]
    ELSE g

\* a ko_player without the test of the respawn timer
ko_player_unguarded(g, p) ==
    LET g1 == [g EXCEPT !.cs[p] = lose_life(g.cs[p])]
    IN IF g1.cs[p].lives <= 0 THEN check_match_end(g1)
       ELSE [g1 EXCEPT !.rt[p] = RESPAWN_TIME,
                       !.cs[p].px = IF p = 1 THEN (0 - 500) * MILLI ELSE 1780 * MILLI,
                       !.cs[p].py = 300 * MILLI]

\* GameplayState.ko_player
ko_player(g, p) ==
    IF g.rt[p] # Absent THEN g
    ELSE LET g1 == [g EXCEPT !.cs[p] = lose_life(g.cs[p])]
         IN IF g1.cs[p].lives <= 0 THEN check_match_end(g1)
            ELSE [g1 EXCEPT !.rt[p] = RESPAWN_TIME,
                            !.cs[p].px = IF p = 1 THEN (0 - 500) * MILLI ELSE 1780 * MILLI,
                            !.cs[p].py = 300 * MILLI]

\* the characters after PhysicsManager.update, with the KO map it returns
PhysicsUpdate(cs, st) ==
    LET Combat(r1, r2) ==
            [ cs |-> check_combat_collisions([p \in Players |-> IF p = 1 THEN r1.c ELSE r2.c]),
              ko |-> [p \in Players |-> IF p = 1 THEN r1.ko ELSE r2.ko] ]
    IN Combat(update_character_physics(cs[1], st, NoKO),
              update_character_physics(cs[2], st, NoKO))

ClearLog(cs) == [p \in Players |-> [cs[p] EXCEPT !.log = EmptyLog]]

\* GameplayState.update up to the character updates; an exception leaving a
\* character's update ends the step there
UpdateCharacters(g, st, i) ==
    LET First(d) == IF d.rt[1] = Absent THEN [d EXCEPT !.cs[1] = update(d.cs[1], i[1])] ELSE d
        Second(d) == IF d.cs[1].raised THEN d
                     ELSE IF d.rt[2] = Absent THEN [d EXCEPT !.cs[2] = update(d.cs[2], i[2])]
                     ELSE d
    IN Second(First(update_respawn_timer(update_respawn_timer(g, 1, st), 2, st)))

\* the rest of GameplayState.update: physics, blast-zone KOs, damage KOs, match end
FinishUpdate(g, st) ==
    LET BlastKO(d, ko, p) == IF ko[p].direction # "none" THEN ko_player(d, p) ELSE d
        DamageKO(d, p) == IF d.rt[p] = Absent /\ d.cs[p].damage_percent >= KO_PERCENT
                          THEN ko_player(d, p) ELSE d
        After(ph) ==
            [ g |-> check_match_end(
                        DamageKO(DamageKO(BlastKO(BlastKO([g EXCEPT !.cs = ph.cs], ph.ko, 1),
                                                  ph.ko, 2), 1), 2)),
              ko |-> ph.ko ]
    IN After(PhysicsUpdate(g.cs, st))

\* one fixed step of GameplayState.update from g; crashed tells that an exception
\* ended it, and ko is the KO map of the step
Step(g, st, i, ko) ==
    Let(UpdateCharacters([g EXCEPT !.cs = ClearLog(g.cs)], st, i), LAMBDA g1 :
        IF g1.cs[1].raised \/ g1.cs[2].raised
        THEN [g |-> [g1 EXCEPT !.gs = "crashed"], ko |-> ko]
        ELSE FinishUpdate(g1, st))

\* GameplayState.update run for one fixed step with the key states keys[p] of
\* the two players; the previous key states are those of the step before
GameplayStep(keys) ==
    /\ game_state = "gameplay"
    /\ \E r \in {Step([cs |-> characters, rt |-> respawn_timer,
                       gs |-> game_state, winner |-> winner],
                      stage,
                      [p \in Players |->
                          Input(keys[p].left, keys[p].right, keys[p].up, keys[p].down,
                                keys[p].attack, keys[p].grab, input[p].up, input[p].attack)],
                      k_o_d_players)} :
          /\ characters' = r.g.cs
          /\ respawn_timer' = r.g.rt
          /\ game_state' = r.g.gs
          /\ winner' = r.g.winner
          /\ k_o_d_players' = r.ko
    /\ input' = keys
    /\ UNCHANGED stage

\* one fixed step, counted
GameplayUpdate(keys) ==
    /\ GameplayStep(keys)
    /\ tick' = tick + 1
    /\ UNCHANGED <<engine, twin>>


-----------------------------------------------------------------------------
(* The engine's clock.  GameEngine keeps its accumulator in binary64, and   *)
(* how many steps one call runs depends on how each subtraction rounds, so  *)
(* these values are kept exactly: a binary64 below 4.0 that is a multiple   *)
(* of 2^-58 is the pair <<hi, lo>>, standing for (hi * 2^29 + lo) * 2^-58.  *)

LIMB == 2^29

Zero64 == <<0, 0>>

\* GameEngine.fixed_timestep = 1.0 / 60.0 = 0x1.1111111111111p-6
FIXED_TIMESTEP == <<8947848, 286331153>>

\* a >= b
Ge64(a, b) == a[1] > b[1] \/ (a[1] = b[1] /\ a[2] >= b[2])

Carry(hi, lo) == <<hi + lo \div LIMB, lo % LIMB>>

\* a + b and a - b (for a >= b) as real numbers
ExactAdd(a, b) == Carry(a[1] + b[1], a[2] + b[2])
ExactSub(a, b) ==
    IF a[2] >= b[2] THEN <<a[1] - b[1], a[2] - b[2]>>
    ELSE <<a[1] - b[1] - 1, a[2] + LIMB - b[2]>>

RECURSIVE Excess(_)
\* the number of low bits a value with this hi has beyond a 53-bit significand
Excess(hi) == IF hi < 2^24 THEN 0 ELSE 1 + Excess(hi \div 2)

\* the nearest binary64, ties to even
Round64(v) ==
    LET m == 2^Excess(v[1])
        r == v[2] % m
        up == 2 * r > m \/ (2 * r = m /\ (v[2] \div m) % 2 = 1)
    IN IF up THEN Carry(v[1], v[2] - r + m) ELSE <<v[1], v[2] - r>>

\* the binary64 operations a + b and a - b
Add64(a, b) == Round64(ExactAdd(a, b))
Sub64(a, b) == Round64(ExactSub(a, b))

\* clock.tick(target_fps) / 1000.0 in the main loop, for a frame of ms
\* milliseconds: a frame on schedule takes 16 or 17, a stalled one more
Seconds(ms) ==
    CASE ms = 16 -> <<8589934, 317827580>>
      [] ms = 17 -> <<9126805, 270582940>>
      [] ms = 650 -> <<348966092, 429496736>>

\* GameEngine.__init__; steps, delta_time and before describe the last update
\* call, calls counts them
NewEngine ==
    [accumulator |-> Zero64, steps |-> 0, delta_time |-> Zero64, before |-> Zero64,
     calls |-> 0]

\* only one run of the match is followed
NoTwin == [followed |-> FALSE]

-----------------------------------------------------------------------------
(* The match *)

Keys(l, r, u, d, a, g) ==
    [left |-> l, right |-> r, up |-> u, down |-> d, attack |-> a, grab |-> g]

NoKeys == Keys(FALSE, FALSE, FALSE, FALSE, FALSE, FALSE)
KeyAttack == Keys(FALSE, FALSE, FALSE, FALSE, TRUE, FALSE)
KeyUp == Keys(FALSE, FALSE, TRUE, FALSE, FALSE, FALSE)
KeyLeft == Keys(TRUE, FALSE, FALSE, FALSE, FALSE, FALSE)
KeyRight == Keys(FALSE, TRUE, FALSE, FALSE, FALSE, FALSE)
\* right + grab + attack: the side special
KeySideSpecial == Keys(FALSE, TRUE, FALSE, FALSE, TRUE, TRUE)

\* GameplayState.enter: stage set up, both characters created at the spawn points
Enter(st, arch1, arch2) ==
    /\ stage = st
    /\ characters = [p \in Players |->
            NewCharacter(IF p = 1 THEN arch1 ELSE arch2,
                         st.spawn_points[p][1], st.spawn_points[p][2], p)]
    /\ respawn_timer = [p \in Players |-> Absent]
    /\ game_state = "gameplay"
    /\ winner = 0
    /\ k_o_d_players = [p \in Players |-> NoKO]
    /\ input = [p \in Players |-> NoKeys]
    /\ tick = 0
    /\ engine = NewEngine
    /\ twin = NoTwin

Init == \E st \in Stages, arch1 \in Archetypes : Enter(st, arch1, "warrior")

\* what one player may hold in a step of the whole-match specification
MatchKeys == {NoKeys, KeyAttack}

KeysOf(k1, k2) == [p \in Players |-> IF p = 1 THEN k1 ELSE k2]

Next ==
    /\ tick < MaxTicks
    /\ \E k1 \in MatchKeys : GameplayUpdate(KeysOf(k1, NoKeys))

Spec == Init /\ [][Next]_vars


-----------------------------------------------------------------------------
(* Situations of a running match, used as starting points *)

\* a character that fell from its spawn point, landed and stood still since:
\* on the main platform at x, idle, with damage d (half percent) and lives l
Settled(arch, st, x, player_id, d, l, right) ==
    [NewCharacter(arch, x, st.platforms[1].y, player_id)
        EXCEPT !.previous_state = "landing", !.state_timer = STATE_TIMER_CAP,
               !.damage_percent = d, !.lives = l, !.facing_right = right]

\* both players settled on the main platform, at x1 and x2
Standing(st, arch1, arch2, x1, x2, d1, d2, l1, l2) ==
    /\ stage = st
    /\ characters = [p \in Players |->
            IF p = 1 THEN Settled(arch1, st, x1, 1, d1, l1, TRUE)
            ELSE Settled(arch2, st, x2, 2, d2, l2, FALSE)]
    /\ respawn_timer = [p \in Players |-> Absent]
    /\ game_state = "gameplay"
    /\ winner = 0
    /\ k_o_d_players = [p \in Players |-> NoKO]
    /\ input = [p \in Players |-> NoKeys]
    /\ tick = 0
    /\ engine = NewEngine
    /\ twin = NoTwin


-----------------------------------------------------------------------------
(* Attacks that meet nobody: the players stand at their spawn columns, too far
   apart for any hitbox to reach, and only player 1 acts *)

WhiffTicks == 34

InitWhiff ==
    \E st \in Stages, arch1 \in Archetypes :
        Standing(st, arch1, "warrior", st.spawn_points[1][1], st.spawn_points[2][1], 0, 0, 3, 3)

\* player 1 may jump in the first step and hold up, and presses attack once
WhiffKeys ==
    IF input[1].attack \/ characters[1].hist.attacks > 0 THEN {NoKeys}
    ELSE IF tick = 0 THEN {NoKeys, KeyUp, KeyAttack}
    ELSE IF input[1].up THEN {KeyUp, KeyAttack}
    ELSE {NoKeys, KeyAttack}

NextWhiff ==
    /\ tick < WhiffTicks
    /\ \E k1 \in WhiffKeys : GameplayUpdate(KeysOf(k1, NoKeys))

SpecWhiff == InitWhiff /\ [][NextWhiff]_vars


-----------------------------------------------------------------------------
(* Claims about attack timing *)

\* startup + active + recovery of the attack a character carries
TotalFrames(a) == a.startup_frames + a.active_frames + a.recovery_frames

\* C4: an uninterrupted base neutral attack (startup 6, active 4, recovery 8)
\* creates exactly one hitbox, in the step that brings attack_state_frames to 6
\* and in no other, and in the step that brings the counter to 18 the character
\* is back in Idle (on the ground) or Falling (in the air) with is_attacking
\* false.  Uninterrupted: no hit, no stock loss and no landing lag since the
\* attack began.
C4_BaseNeutralTiming ==
    [][\A p \in Players :
        LET c == characters[p]
            d == characters'[p]
            tracked == c.arch = "base" /\ c.is_attacking /\ c.hist.clean /\ d.hist.clean
                       /\ c.current_attack = BaseAttack("neutral")
        IN /\ (d.arch = "base" /\ d.hist.attacks = c.hist.attacks + 1
                 /\ d.current_attack = BaseAttack("neutral"))
              => (d.is_attacking /\ d.attack_state_frames = 1 /\ d.log.created = 0)
           /\ (tracked /\ c.attack_state_frames < 17)
              => /\ d.is_attacking
                 /\ d.attack_state_frames = c.attack_state_frames + 1
                 /\ d.log.created = (IF d.attack_state_frames = 6 THEN 1 ELSE 0)
           /\ (tracked /\ c.attack_state_frames = 17)
              => /\ ~d.is_attacking
                 /\ d.log.created = 0
                 /\ d.hist.created = c.hist.attacks
                 /\ d.current_state = (IF c.on_ground THEN "idle" ELSE "falling")
    ]_vars

\* C4 witness: a base character finished an uninterrupted neutral attack in the air
C4_Witness ==
    \E p \in Players :
        /\ characters[p].arch = "base"
        /\ characters[p].hist.attacks = 1 /\ characters[p].hist.clean
        /\ ~characters[p].is_attacking
        /\ characters[p].hist.created = 1
        /\ characters[p].current_state = "falling"


NeutralAttack(arch) ==
    CASE arch = "warrior" -> WarriorAttack("neutral")
      [] arch = "speedster" -> SpeedsterAttack("neutral")
      [] arch = "heavy" -> HeavyAttack("neutral")
      [] OTHER -> BaseAttack("neutral")

\* the opponent is beyond the reach of every neutral hitbox
OutOfRange == Abs(characters[1].px - characters[2].px) > 200 * MILLI

\* C8: a character standing still that starts its neutral attack with the
\* opponent out of range is attacking for exactly startup + active + recovery
\* steps; when they are over is_attacking is false, each attack has added one
\* hitbox to active_hitboxes, every one of them is gone again, and no step of
\* the attack changed either character's damage_percent.
C8_NeutralWhiff ==
    [][\A p \in Players :
        LET c == characters[p]
            d == characters'[p]
            a == NeutralAttack(c.arch)
            tracked == c.is_attacking /\ c.hist.at_rest /\ c.current_attack = a /\ OutOfRange
        IN /\ (d.hist.attacks = c.hist.attacks + 1 /\ d.hist.at_rest /\ d.current_attack = a)
              => (d.is_attacking /\ d.attack_state_frames = 1)
           /\ tracked
              => \A q \in Players : characters'[q].damage_percent = characters[q].damage_percent
           /\ (tracked /\ c.attack_state_frames < TotalFrames(a) - 1)
              => (d.is_attacking /\ d.attack_state_frames = c.attack_state_frames + 1)
           /\ (tracked /\ c.attack_state_frames = TotalFrames(a) - 1)
              => /\ ~d.is_attacking
                 /\ d.hist.created = d.hist.attacks
                 /\ d.hist.removed = d.hist.created
                 /\ d.active_hitboxes = << >>
    ]_vars

\* C8 witness: a Heavy that began its neutral attack at rest is done with it
C8_Witness ==
    /\ characters[1].arch = "heavy"
    /\ characters[1].hist.at_rest /\ characters[1].hist.attacks = 1
    /\ ~characters[1].is_attacking
    /\ characters[1].hist.created = 1 /\ characters[1].hist.removed = 1
    /\ OutOfRange

-----------------------------------------------------------------------------
(* perform_attack called directly, at any moment of a match *)

ApiTicks == 5
MaxCalls == 2

\* character.perform_attack(direction), called between two steps
CallPerformAttack(p, direction) ==
    /\ game_state = "gameplay"
    /\ characters[p].hist.calls < MaxCalls
    /\ \E c \in {perform_attack([characters[p] EXCEPT !.log = EmptyLog], direction)} :
          /\ characters' = [characters EXCEPT ![p] = c]
          /\ game_state' = IF c.raised THEN "crashed" ELSE game_state
    /\ UNCHANGED <<respawn_timer, winner, k_o_d_players, stage, input, tick, engine, twin>>

StepIdle ==
    /\ tick < ApiTicks
    /\ GameplayUpdate(KeysOf(NoKeys, NoKeys))

InitCalls ==
    \E arch1 \in Archetypes :
        Standing(Battlefield, arch1, "warrior", 350, 850, 0, 0, 3, 3)

NextCalls ==
    \/ StepIdle
    \/ \E direction \in Directions : CallPerformAttack(1, direction)

SpecCalls == InitCalls /\ [][NextCalls]_vars

\* C3: every perform_attack call made while is_attacking was true, whatever the
\* archetype and the direction, left current_attack, attack_state_frames,
\* attack_hitbox_created, can_act, current_state, the velocity and the three
\* cooldown counters as they were.
C3_AttackWhileAttackingIsNoOp ==
    \A p \in Players :
        \A k \in DOMAIN characters[p].log.pa :
            LET b == characters[p].log.pa[k].before
                e == characters[p].log.pa[k].after
            IN b.is_attacking =>
                /\ e.current_attack = b.current_attack
                /\ e.attack_state_frames = b.attack_state_frames
                /\ e.attack_hitbox_created = b.attack_hitbox_created
                /\ e.can_act = b.can_act
                /\ e.current_state = b.current_state
                /\ e.vx = b.vx /\ e.vy = b.vy
                /\ e.up_special_cooldown = b.up_special_cooldown
                /\ e.side_attack_cooldown = b.side_attack_cooldown
                /\ e.side_special_cooldown = b.side_special_cooldown
                /\ e.is_attacking

\* C3 witness: a Speedster in the middle of its lightning dash was asked for
\* another side special
C3_Witness ==
    \E p \in Players :
        \E k \in DOMAIN characters[p].log.pa :
            /\ characters[p].arch = "speedster"
            /\ characters[p].log.pa[k].before.is_attacking
            /\ characters[p].log.pa[k].before.attack_state_frames > 0
            /\ characters[p].log.pa[k].before.current_attack.type = "lightning_dash"
            /\ characters[p].log.pa[k].direction = "side_special"


-----------------------------------------------------------------------------
(* Hits delivered directly: take_damage is called on player 1, first before
   the first step and then between steps, and player 1 may attack once *)

HitTicks == 20
MaxHits == 2

\* a hit from the attacker's side: damage, force and angle of a hitbox
Blow(damage, force, angle) ==
    [damage |-> damage, kx |-> force * AbsCos(angle), ky |-> KnockbackY(force, angle)]

\* the Warrior's rising slash, and a hit of an odd number of half points
Blows == {Blow(32, 15, 0 - 80), Blow(9, 9, 0)}

\* character.take_damage(damage, knockback_vector, attacker), called between two steps
CallTakeDamage(p, h) ==
    /\ game_state = "gameplay"
    /\ characters[p].hist.hits < MaxHits
    /\ characters' = [characters EXCEPT ![p] =
            take_damage([characters[p] EXCEPT !.log = EmptyLog], h.damage, h.kx, h.ky)]
    /\ UNCHANGED <<respawn_timer, game_state, winner, k_o_d_players, stage, input, tick,
                   engine, twin>>

HitsKeys ==
    IF input[1].attack \/ characters[1].hist.attacks > 0 THEN {NoKeys}
    ELSE {NoKeys, KeyAttack}

StepHits ==
    /\ tick < HitTicks
    /\ characters[1].hist.hits > 0
    /\ \E k1 \in HitsKeys : GameplayUpdate(KeysOf(k1, NoKeys))

InitHits ==
    \E arch1 \in Archetypes :
        Standing(Battlefield, arch1, "warrior", 600, 850, 0, 0, 3, 3)

NextHits ==
    \/ StepHits
    \/ \E h \in Blows : CallTakeDamage(1, h)

SpecHits == InitHits /\ [][NextHits]_vars

\* the character is invincible: hit invincibility or respawn invincibility
Invincible(b) == b.invincibility_timer > 0 \/ b.respawn_invincibility > 0

\* C1: every take_damage call on a character whose invincibility_timer or
\* respawn_invincibility was positive, a Heavy with active super armor included,
\* left damage_percent, the velocity and current_state as they were.
C1_InvincibleTakesNothing ==
    \A p \in Players :
        \A k \in DOMAIN characters[p].log.td :
            LET b == characters[p].log.td[k].before
                e == characters[p].log.td[k].after
            IN Invincible(b) =>
                /\ e.damage_percent = b.damage_percent
                /\ e.vx = b.vx /\ e.vy = b.vy
                /\ e.current_state = b.current_state

\* C2: every take_damage call with damage d on a character that was neither
\* invincible nor super-armored raised damage_percent by exactly d, whatever
\* hits came before it.
C2_DamageAddsExactly ==
    \A p \in Players :
        \A k \in DOMAIN characters[p].log.td :
            LET b == characters[p].log.td[k].before
                e == characters[p].log.td[k].after
            IN (~Invincible(b) /\ ~b.has_super_armor) =>
                e.damage_percent = b.damage_percent + characters[p].log.td[k].damage

\* C2 witness: a second hit landed on a character that already carried damage
\* and whose invincibility had run out
C2_Witness ==
    \E p \in Players :
        \E k \in DOMAIN characters[p].log.td :
            LET b == characters[p].log.td[k].before
                e == characters[p].log.td[k].after
            IN /\ ~Invincible(b) /\ ~b.has_super_armor
               /\ b.damage_percent > 0
               /\ characters[p].hist.hits = 2
               /\ e.damage_percent > b.damage_percent


-----------------------------------------------------------------------------
(* Knockback scaling: two defenders of one archetype that differ by half a
   point of damage take the same hit *)

MaxLowerDamage == 198

\* the hits the hitboxes of the four archetypes deliver: damage in half points,
\* force, angle
AttackBlows ==
    { Blow(16, 5, 0), Blow(20, 12, 0 - 75), Blow(30, 10, 45),
      Blow(30, 10, 0 - 10), Blow(32, 15, 0 - 80), Blow(30, 6, 0 - 5),
      Blow(4, 3, 0), Blow(36, 8, 0 - 10), Blow(52, 12, 45) }

InitKnockback ==
    \E arch \in Archetypes, d \in 0..MaxLowerDamage :
        Standing(Battlefield, arch, arch, 350, 850, d, d + 1, 3, 3)

\* take_damage with the same arguments on both defenders
HitBoth(h) ==
    /\ \A p \in Players : characters[p].hist.hits = 0
    /\ characters' = [p \in Players |->
            take_damage([characters[p] EXCEPT !.log = EmptyLog], h.damage, h.kx, h.ky)]
    /\ UNCHANGED <<respawn_timer, game_state, winner, k_o_d_players, stage, input, tick,
                   engine, twin>>

NextKnockback == \E h \in AttackBlows : HitBoth(h)

SpecKnockback == InitKnockback /\ [][NextKnockback]_vars

\* the velocity change of the k-th take_damage call of the step, per axis
DeltaVx(c, k) == Abs(c.log.td[k].after.vx - c.log.td[k].before.vx)
DeltaVy(c, k) == Abs(c.log.td[k].after.vy - c.log.td[k].before.vy)

\* C9: of two defenders of the same archetype below 100 % that took the same
\* hit, the one with the higher damage_percent had the larger velocity change:
\* no component smaller and at least one strictly larger, hence a strictly
\* larger magnitude.
C9_KnockbackGrowsWithDamage ==
    (\A p \in Players : characters[p].hist.hits = 1) =>
        LET lo == characters[1]
            hi == characters[2]
        IN (/\ lo.arch = hi.arch
            /\ lo.log.td[1].before.damage_percent < hi.log.td[1].before.damage_percent
            /\ hi.log.td[1].before.damage_percent < 200
            /\ lo.log.td[1].damage = hi.log.td[1].damage
            /\ lo.log.td[1].kx = hi.log.td[1].kx /\ lo.log.td[1].ky = hi.log.td[1].ky) =>
                /\ DeltaVx(hi, 1) >= DeltaVx(lo, 1)
                /\ DeltaVy(hi, 1) >= DeltaVy(lo, 1)
                /\ DeltaVx(hi, 1) > DeltaVx(lo, 1) \/ DeltaVy(hi, 1) > DeltaVy(lo, 1)

\* C9 witness: the weakest hit of the game landed on two Heavies at 99 % and
\* 99.5 %, and the second was thrown faster
C9_Witness ==
    /\ \A p \in Players : characters[p].hist.hits = 1 /\ characters[p].arch = "heavy"
    /\ characters[1].log.td[1].before.damage_percent = 198
    /\ characters[2].log.td[1].before.damage_percent = 199
    /\ characters[1].log.td[1].damage = 4
    /\ DeltaVx(characters[2], 1) > DeltaVx(characters[1], 1)


-----------------------------------------------------------------------------
(* Jumps: player 1 jumps in the first step, lets go of the key early or holds
   it, and comes down again; nobody attacks *)

JumpTicks == 44
ReleaseTicks == 3

\* the columns player 1 jumps from: its spawn column, and the middle of the stage
JumpColumns(st) == {st.spawn_points[1][1], 600}

InitJump ==
    \E st \in Stages, arch1 \in Archetypes :
        \E x1 \in JumpColumns(st) :
            Standing(st, arch1, "warrior", x1, st.spawn_points[2][1], 0, 0, 3, 3)

JumpKeys ==
    IF tick = 0 THEN {KeyUp}
    ELSE IF ~input[1].up THEN {NoKeys}
    ELSE IF tick < ReleaseTicks THEN {KeyUp, NoKeys}
    ELSE {KeyUp}

NextJump ==
    /\ tick < JumpTicks
    /\ \E k1 \in JumpKeys : GameplayUpdate(KeysOf(k1, NoKeys))

SpecJump == InitJump /\ [][NextJump]_vars

\* the bottom at height y is inside the landing band of the platform
InLandingBand(y, platform) ==
    y >= (platform.y - 5) * MILLI /\ y <= (platform.y + 10) * MILLI

\* the character centred at x overlaps the platform horizontally
OverPlatform(x, platform) ==
    /\ x + (WIDTH * MILLI) \div 2 > (platform.x + 5) * MILLI
    /\ x - (WIDTH * MILLI) \div 2 < (platform.x + platform.width - 5) * MILLI

\* C5: whenever, in some sub-step of the physics tick just run, a falling
\* character's bottom was inside the landing band of a platform it overlapped
\* horizontally, the character ends the tick with position.y equal to that
\* platform's y, velocity.y 0 and on_ground true.
C5_LandingSnapsToPlatform ==
    \A p \in Players :
        \A k \in DOMAIN characters[p].log.path :
            \A n \in DOMAIN stage.platforms :
                LET e == characters[p].log.path[k]
                    platform == stage.platforms[n]
                IN (e.vy > 0 /\ InLandingBand(e.moved_y, platform) /\ OverPlatform(e.x, platform)) =>
                    /\ characters[p].py = platform.y * MILLI
                    /\ characters[p].vy = 0
                    /\ characters[p].on_ground


-----------------------------------------------------------------------------
(* Flights: player 1 was knocked away, its hitstun is over, and it flies near
   the blast lines; nobody touches a key *)

FlightTicks == 3

\* a character in free fall at (x, y) milli-pixels with velocity (vx, vy)
Airborne(arch, x, y, vx, vy, player_id, d) ==
    [NewCharacter(arch, 0, 0, player_id)
        EXCEPT !.px = x, !.py = y, !.vx = vx, !.vy = vy,
               !.on_ground = FALSE, !.current_state = "falling",
               !.previous_state = "hit_stun", !.state_timer = STATE_TIMER_CAP,
               !.damage_percent = d]

\* the horizontal velocity that air deceleration, air friction and wind turn
\* into one pixel per step
OnePixelDrift(st) ==
    CASE st.name = "battlefield" -> 1459
      [] st.wind_effect > 0 -> 1448
      [] OTHER -> 1489

FlightX(st) == { (st.left_blast_zone + 8) * MILLI, 600 * MILLI,
                 (st.right_blast_zone - 8) * MILLI, st.right_blast_zone * MILLI }
FlightY(st) == { (st.top_blast_zone + 8) * MILLI, 300 * MILLI,
                 (st.bottom_blast_zone - 8) * MILLI }
FlightVx(st) == { 0 - 25000, 0, OnePixelDrift(st), 25000 }
FlightVy == { 0 - 25000, 0 - 800, 9000 }

InitFlight ==
    \E st \in Stages, arch1 \in {"base", "heavy"} :
        \E x \in FlightX(st), y \in FlightY(st), vx \in FlightVx(st), vy \in FlightVy :
            /\ stage = st
            /\ characters = [p \in Players |->
                    IF p = 1 THEN Airborne(arch1, x, y, vx, vy, 1, 80)
                    ELSE Settled("warrior", st, st.spawn_points[2][1], 2, 0, 3, FALSE)]
            /\ respawn_timer = [p \in Players |-> Absent]
            /\ game_state = "gameplay"
            /\ winner = 0
            /\ k_o_d_players = [p \in Players |-> NoKO]
            /\ input = [p \in Players |-> NoKeys]
            /\ tick = 0
            /\ engine = NewEngine
            /\ twin = NoTwin
    /\ engine = NewEngine
    /\ twin = NoTwin

NextFlight ==
    /\ tick < FlightTicks
    /\ GameplayUpdate(KeysOf(NoKeys, NoKeys))

SpecFlight == InitFlight /\ [][NextFlight]_vars

\* the position e lies beyond at least one blast bound of the stage
Beyond(e, st) ==
    \/ e.x < st.left_blast_zone * MILLI \/ e.x > st.right_blast_zone * MILLI
    \/ e.y < st.top_blast_zone * MILLI \/ e.y > st.bottom_blast_zone * MILLI

\* the first bound violated at e in the order left, right, top, bottom
FirstViolated(e, st) ==
    CASE e.x < st.left_blast_zone * MILLI -> "left"
      [] e.x >= st.left_blast_zone * MILLI /\ e.x > st.right_blast_zone * MILLI -> "right"
      [] e.x >= st.left_blast_zone * MILLI /\ e.x <= st.right_blast_zone * MILLI
            /\ e.y < st.top_blast_zone * MILLI -> "top"
      [] OTHER -> "bottom"

\* C6: after a physics tick the KO map holds a player exactly when one of the
\* positions the tick moved it through lies beyond a blast bound, and the
\* direction recorded is the first bound violated, in the order left, right,
\* top, bottom, at the first such position; a character at x = right + 1 is
\* recorded with direction right.
C6_BlastZoneKO ==
    game_state # "crashed" =>
        \A p \in Players :
            LET path == characters[p].log.path
                ko == k_o_d_players[p]
            IN /\ ko.direction # "none" <=> \E k \in DOMAIN path : Beyond(path[k], stage)
               /\ \A k \in DOMAIN path :
                    (Beyond(path[k], stage) /\ \A j \in 1..(k - 1) : ~Beyond(path[j], stage)) =>
                        /\ ko.direction = FirstViolated(path[k], stage)
                        /\ ko.x = path[k].x /\ ko.y = path[k].y

\* C6 witness: a character was carried from the right blast line to one pixel
\* beyond it, and the KO map records it with direction right
C6_Witness ==
    \E p \in Players :
        /\ Len(characters[p].log.path) = 1
        /\ characters[p].log.path[1].x = (stage.right_blast_zone + 1) * MILLI
        /\ ~(characters[p].log.path[1].y < stage.top_blast_zone * MILLI)
        /\ ~(characters[p].log.path[1].y > stage.bottom_blast_zone * MILLI)
        /\ k_o_d_players[p].direction = "right"
        /\ respawn_timer[p] = RESPAWN_TIME

\* a character went beyond the right and the top bound in the same sub-step
\* and is recorded with direction right
CornerKO ==
    \E p \in Players :
        \E k \in DOMAIN characters[p].log.path :
            /\ characters[p].log.path[k].x > stage.right_blast_zone * MILLI
            /\ characters[p].log.path[k].y < stage.top_blast_zone * MILLI
            /\ k_o_d_players[p].direction = "right"


-----------------------------------------------------------------------------
(* Duels: player 2 stands still within reach of player 1, fresh or close to
   the KO percentage; player 1 opens with a neutral attack or a side special
   and may follow up with neutral attacks whenever it can act *)

DuelTicks == 42

InitDuel ==
    \E arch1 \in Archetypes, d2 \in {0, KO_PERCENT - 10} :
        Standing(Battlefield, arch1, "warrior", 500, 600, 0, d2, 3, 3)

DuelKeys ==
    IF tick = 0 THEN {KeyAttack, KeySideSpecial}
    ELSE IF input[1].attack \/ ~characters[1].can_act THEN {NoKeys}
    ELSE {NoKeys, KeyAttack}

NextDuel ==
    /\ tick < DuelTicks
    /\ \E k1 \in DuelKeys : GameplayUpdate(KeysOf(k1, NoKeys))

SpecDuel == InitDuel /\ [][NextDuel]_vars

\* the combat passes that test a hitbox with 15 active frames for overlap: the
\* pass that counts it down to 0 removes it untested
TestedPasses == 15 - 1

\* C7: once the multi-hit hitbox of a Speedster's lightning dash (hit_interval
\* 5, 15 active frames) that overlapped the stationary defender in every pass
\* has gone, the defender has been hit exactly 3 times.
C7_LightningDashHitsThrice ==
    \A p \in Players :
        (/\ characters[p].arch = "speedster"
         /\ characters[p].hist.attacks = 1
         /\ characters[p].hist.created = 1
         /\ characters[p].hist.removed = 1
         /\ characters[p].hist.tested = TestedPasses) =>
            characters[Other(p)].hist.hits = 3

\* C10: damage_percent is never negative, and a step lowers it only when
\* lose_life was called in that step, and then to 0.
C10_DamageNeverDecreases ==
    /\ [](\A p \in Players : characters[p].damage_percent >= 0)
    /\ [][\A p \in Players :
            characters'[p].damage_percent < characters[p].damage_percent =>
                characters'[p].log.lost > 0 /\ characters'[p].damage_percent = 0]_vars

\* C10 witness: a hit took player 2 past the KO percentage, it lost a stock
\* and is back at 0 %
C10_Witness ==
    /\ characters[2].log.lost = 1
    /\ characters[2].log.td # << >>
    /\ characters[2].log.td[1].after.damage_percent >= KO_PERCENT
    /\ characters[2].damage_percent = 0
    /\ characters[2].lives = START_LIVES - 1


-----------------------------------------------------------------------------
(* Exchanges at close range: player 2 stands inside the reach of every hitbox
   of player 1, in the middle of the main platform or near its right edge;
   player 1 presses attack with a direction in the first step and lets go *)

StunTicks == 40

\* attack with the right, up or down key held
KeySideAttack == Keys(FALSE, TRUE, FALSE, FALSE, TRUE, FALSE)
KeyUpAttack == Keys(FALSE, FALSE, TRUE, FALSE, TRUE, FALSE)
KeyDownAttack == Keys(FALSE, FALSE, FALSE, TRUE, TRUE, FALSE)

\* where player 1 stands: mid-stage, and 90 pixels from the right end of the
\* main platform
StunColumns(st) == {600, st.platforms[1].x + st.platforms[1].width - 90}

InitStun ==
    \E st \in Stages, arch1 \in Archetypes :
        \E x1 \in StunColumns(st) :
            Standing(st, arch1, "warrior", x1, x1 + 30, 0, 0, 3, 3)

StunKeys ==
    IF tick = 0 THEN {KeyAttack, KeySideAttack, KeyUpAttack, KeyDownAttack}
    ELSE {NoKeys}

NextStun ==
    /\ tick < StunTicks
    /\ \E k1 \in StunKeys : GameplayUpdate(KeysOf(k1, NoKeys))

SpecStun == InitStun /\ [][NextStun]_vars

\* C11: in the step whose update brings a character's hit_stun_timer from a
\* positive value to 0 (the character is not waiting to respawn and is not hit
\* again in that step), the character ends with can_act true, in Idle or
\* Falling, and in Falling if it is airborne.
C11_HitstunReleases ==
    [][\A p \in Players :
          (/\ respawn_timer[p] = Absent
           /\ game_state' = "gameplay"
           /\ characters[p].hit_stun_timer > 0
           /\ characters'[p].hit_stun_timer = 0
           /\ characters'[p].log.td = << >>
           /\ characters'[p].log.lost = 0) =>
              /\ characters'[p].can_act
              /\ characters'[p].current_state \in {"idle", "falling"}
              /\ (~characters'[p].on_ground => characters'[p].current_state = "falling")]_vars


-----------------------------------------------------------------------------
(* Special button: player 1 stands alone at its spawn column and opens with
   attack while the special button is held, with or without a direction; after
   that no key is touched and the match runs on.  The step counter keeps only the
   parity of the steps beyond LockTicks. *)

LockTicks == 70

\* attack + special, alone and with the right, up or down key
KeyNeutralSpecial == Keys(FALSE, FALSE, FALSE, FALSE, TRUE, TRUE)
KeyUpSpecial == Keys(FALSE, FALSE, TRUE, FALSE, TRUE, TRUE)
KeyDownSpecial == Keys(FALSE, FALSE, FALSE, TRUE, TRUE, TRUE)

SpecialKeys == {KeyNeutralSpecial, KeySideSpecial, KeyUpSpecial, KeyDownSpecial}

\* a Heavy asked for a direction it has no descriptor for raises
\* AttributeError in perform_attack, which ends the program: the match that
\* runs on is one of the other archetypes
LockArchetypes == Archetypes \ {"heavy"}

InitLock ==
    \E st \in Stages, arch1 \in LockArchetypes :
        Standing(st, arch1, "warrior", st.spawn_points[1][1], st.spawn_points[2][1],
                 0, 0, 3, 3)

LockKeys == IF tick = 0 THEN SpecialKeys ELSE {NoKeys}

\* the step counter counts to LockTicks and then keeps only the parity
LockClock ==
    /\ game_state = "gameplay"
    /\ tick' = IF tick <= LockTicks THEN tick + 1 ELSE LockTicks
    /\ UNCHANGED <<engine, twin>>

NextLock ==
    \E k1 \in LockKeys :
        /\ GameplayStep(KeysOf(k1, NoKeys))
        /\ LockClock

\* the main loop calls GameplayState.update for as long as the match is on
SpecLock == InitLock /\ [][NextLock]_vars /\ WF_tick(LockClock)

\* the character is in an attack session or may not act
Locked(c) == c.is_attacking \/ ~c.can_act

\* C12: a character that began an attack, with or without a descriptor for the
\* direction asked, is eventually out of it again (is_attacking false, can_act
\* true) as the ticks go on, nobody hitting it.
C12_NeverLockedForGood ==
    \A p \in Players :
        Locked(characters[p]) ~> (~characters[p].is_attacking /\ characters[p].can_act)


-----------------------------------------------------------------------------
(* Cooldowns: player 1, a Speedster or a Heavy, stands alone at its spawn
   column, opens with the lightning dash keys or the up attack keys, lets go,
   and presses one of the two again at some later moment *)

CooldownTicks == 56

InitCooldown ==
    \E arch1 \in {"speedster", "heavy"} :
        Standing(Battlefield, arch1, "warrior", 350, 850, 0, 0, 3, 3)

CooldownKeys ==
    IF tick = 0 THEN {KeySideSpecial, KeyUpAttack}
    ELSE IF input[1].attack \/ characters[1].hist.calls >= 2 THEN {NoKeys}
    ELSE {NoKeys, KeySideSpecial, KeyUpAttack}

NextCooldown ==
    /\ tick < CooldownTicks
    /\ \E k1 \in CooldownKeys : GameplayUpdate(KeysOf(k1, NoKeys))

SpecCooldown == InitCooldown /\ [][NextCooldown]_vars

\* the call passed the guard of perform_attack and asked for an attack whose
\* cooldown was running: the Speedster's lightning dash, the Speedster's
\* whirlwind flight, the Heavy's ground pound
OnCooldown(b, direction) ==
    /\ b.can_act /\ ~b.is_attacking
    /\ \/ b.arch = "speedster" /\ direction = "side_special" /\ b.side_special_cooldown > 0
       \/ b.arch \in {"speedster", "heavy"} /\ direction = "up" /\ b.up_special_cooldown > 0

\* C13: every perform_attack call rejected because the cooldown of the attack
\* was running left is_attacking, can_act, attack_state_frames, current_attack,
\* current_state, the velocity and the cooldown counters as they were.
C13_CooldownRejectionChangesNothing ==
    \A p \in Players :
        \A k \in DOMAIN characters[p].log.pa :
            LET b == characters[p].log.pa[k].before
                e == characters[p].log.pa[k].after
            IN OnCooldown(b, characters[p].log.pa[k].direction) =>
                /\ e.is_attacking = b.is_attacking
                /\ e.can_act = b.can_act
                /\ e.attack_state_frames = b.attack_state_frames
                /\ e.current_attack = b.current_attack
                /\ e.current_state = b.current_state
                /\ e.vx = b.vx /\ e.vy = b.vy
                /\ e.up_special_cooldown = b.up_special_cooldown
                /\ e.side_special_cooldown = b.side_special_cooldown


-----------------------------------------------------------------------------
(* Knock-outs: both players are in the air eight pixels inside the right blast
   line, player 1 thirty pixels behind player 2, each drifting or flying
   outwards, each with one or two stocks left, player 2 fresh or close to the
   KO percentage; player 1 may open with a side attack.  Nobody touches a key
   afterwards, and the match runs through the respawn wait. *)

KoTicks == 136

InitKo ==
    \E st \in {Battlefield, Plains(14)}, arch1 \in {"base", "heavy"} :
        \E vx1 \in {0, 25000}, vx2 \in {0, 25000}, l1 \in {1, 2}, l2 \in {1, 2},
           d2 \in {0, KO_PERCENT - 10} :
            /\ stage = st
            /\ characters = [p \in Players |->
                    IF p = 1
                    THEN [Airborne(arch1, (st.right_blast_zone - 38) * MILLI, 300 * MILLI,
                                   vx1, 0, 1, 0) EXCEPT !.lives = l1]
                    ELSE [Airborne("warrior", (st.right_blast_zone - 8) * MILLI, 300 * MILLI,
                                   vx2, 0, 2, d2) EXCEPT !.lives = l2]]
            /\ respawn_timer = [p \in Players |-> Absent]
            /\ game_state = "gameplay"
            /\ winner = 0
            /\ k_o_d_players = [p \in Players |-> NoKO]
            /\ input = [p \in Players |-> NoKeys]
            /\ tick = 0
            /\ engine = NewEngine
            /\ twin = NoTwin
    /\ engine = NewEngine
    /\ twin = NoTwin

KoKeys == IF tick = 0 THEN {NoKeys, KeySideAttack} ELSE {NoKeys}

NextKo ==
    /\ tick < KoTicks
    /\ \E k1 \in KoKeys : GameplayUpdate(KeysOf(k1, NoKeys))

SpecKo == InitKo /\ [][NextKo]_vars

\* C14: a step calls lose_life at most once for a character and takes exactly
\* that many stocks, and no step that begins with the character waiting to
\* respawn calls it at all.
C14_OneStockPerKO ==
    [][\A p \in Players :
          /\ characters'[p].log.lost <= 1
          /\ characters'[p].lives = characters[p].lives - characters'[p].log.lost
          /\ (respawn_timer[p] # Absent => characters'[p].log.lost = 0)]_vars

\* C14 witness: a character well into its respawn wait, one stock down, is
\* reported in the KO map of the step just run
C14_Witness ==
    \E p \in Players :
        /\ respawn_timer[p] # Absent
        /\ respawn_timer[p] < RESPAWN_TIME - 10 * DT
        /\ k_o_d_players[p].direction # "none"
        /\ characters[p].log.lost = 0
        /\ characters[p].lives = 1

\* a blast-zone KO and a hit that took the character to the KO percentage fell
\* in the same step, and one stock was taken
BothCausesKO ==
    \E p \in Players :
        /\ k_o_d_players[p].direction # "none"
        /\ characters[p].log.td # << >>
        /\ characters[p].log.td[1].after.damage_percent >= KO_PERCENT
        /\ characters[p].log.lost = 1
        /\ characters[p].lives = 1

\* the match is over and every gameplay variable stays as it is
MatchOver ==
    [][game_state = "win_screen" =>
          UNCHANGED <<characters, respawn_timer, k_o_d_players, winner, game_state>>]_vars

\* C15: as soon as a character has no stock left the game is in WIN_SCREEN
\* with the other player recorded as winner, and no gameplay step runs
\* afterwards.
C15_OtherPlayerWins ==
    /\ [](\A p \in Players :
             characters[p].lives <= 0 => game_state = "win_screen" /\ winner = Other(p))
    /\ MatchOver

\* what holds of the match end: the game is in WIN_SCREEN exactly when a
\* character has no stock left, and the winner recorded is player 2 whenever
\* player 1 has none left, player 1 otherwise
MatchEndsAtZeroLives ==
    /\ []((game_state = "win_screen") <=> (\E p \in Players : characters[p].lives <= 0))
    /\ [](game_state = "win_screen" =>
             winner = IF characters[1].lives <= 0 THEN 2 ELSE 1)
    /\ [](game_state = "gameplay" => winner = 0)
    /\ MatchOver

\* both characters lost their last stock in the same step and player 2 is
\* recorded as the winner
DoubleKO ==
    /\ characters[1].lives = 0 /\ characters[2].lives = 0
    /\ characters[1].log.lost = 1 /\ characters[2].log.lost = 1
    /\ game_state = "win_screen" /\ winner = 2

\* C16: lives stays between 0 and 3, and no step calls lose_life for a
\* character that began the step without a stock.
C16_LivesInRange ==
    /\ [](\A p \in Players : characters[p].lives \in 0..START_LIVES)
    /\ [][\A p \in Players : characters'[p].log.lost > 0 => characters[p].lives > 0]_vars

\* C16 witness: both characters were KO'd in the same step, one of them losing
\* its last stock
C16_Witness ==
    /\ characters[1].log.lost = 1 /\ characters[2].log.lost = 1
    /\ characters[1].lives = 0 /\ characters[2].lives = 1

\* C17: a character that was KO'd in the step just run and has a stock left
\* is not attacking, has no current attack and no active hitbox, has
\* hit_stun_timer 0 and can act.
C17_KoClearsCombatState ==
    \A p \in Players :
        (characters[p].log.lost > 0 /\ characters[p].lives > 0) =>
            /\ ~characters[p].is_attacking
            /\ characters[p].current_attack = NoAttack
            /\ characters[p].active_hitboxes = << >>
            /\ characters[p].hit_stun_timer = 0
            /\ characters[p].can_act

-----------------------------------------------------------------------------
(* The engine's update: frames of varying length drained in fixed steps *)

EngineCalls == 3

\* the frame lengths followed, in milliseconds
FrameLengths == {16, 17, 650}

RECURSIVE LoopRounds(_)
\* how many times the while loop of GameEngine.update goes round from acc
LoopRounds(acc) ==
    IF ~Ge64(acc, FIXED_TIMESTEP) THEN 0
    ELSE 1 + LoopRounds(Sub64(acc, FIXED_TIMESTEP))

RECURSIVE Subtracted(_, _)
\* acc after n rounds of accumulator -= fixed_timestep
Subtracted(acc, n) ==
    IF n = 0 THEN acc
    ELSE Strict(Sub64(acc, FIXED_TIMESTEP), LAMBDA a : Subtracted(a, n - 1))

\* one round of the loop from r: StateManager.update runs the current state,
\* which is GameplayState.update while the match is on; an exception ends
\* the loop, and r.steps counts the rounds that were completed
LoopRound(r, st, i) ==
    IF r.g.gs = "crashed" THEN r
    ELSE IF r.g.gs # "gameplay" THEN [r EXCEPT !.steps = @ + 1]
    ELSE Let(Step(r.g, st, i, r.ko), LAMBDA s :
            [g |-> s.g, ko |-> s.ko,
             steps |-> IF s.g.gs = "crashed" THEN r.steps ELSE r.steps + 1])

RECURSIVE LoopRoundsFrom(_, _, _, _)
\* n rounds in a row, evaluated as two halves one after the other
LoopRoundsFrom(r, n, st, i) ==
    IF n = 0 THEN r
    ELSE IF n = 1 THEN LoopRound(r, st, i)
    ELSE Strict(LoopRoundsFrom(r, n \div 2, st, i), LAMBDA h :
            LoopRoundsFrom(h, n - n \div 2, st, i))

\* the while loop of GameEngine.update, started with the accumulator at acc
Drain(g, ko, acc, st, i) ==
    Let(LoopRoundsFrom([g |-> g, ko |-> ko, steps |-> 0], LoopRounds(acc), st, i),
        LAMBDA r : [g |-> r.g, ko |-> r.ko, steps |-> r.steps,
                    accumulator |-> Subtracted(acc, r.steps)])

\* GameEngine.update(delta_time) for a frame of ms milliseconds in which the
\* players hold keys: InputManager.update takes the key states once, then the
\* accumulator is drained
EngineUpdate(ms, keys) ==
    /\ game_state = "gameplay"
    /\ engine.calls < EngineCalls
    /\ \E r \in {Drain([cs |-> characters, rt |-> respawn_timer,
                        gs |-> game_state, winner |-> winner],
                       k_o_d_players,
                       Add64(engine.accumulator, Seconds(ms)), stage,
                       [p \in Players |->
                           Input(keys[p].left, keys[p].right, keys[p].up, keys[p].down,
                                 keys[p].attack, keys[p].grab,
                                 input[p].up, input[p].attack)])} :
          /\ characters' = r.g.cs
          /\ respawn_timer' = r.g.rt
          /\ game_state' = r.g.gs
          /\ winner' = r.g.winner
          /\ k_o_d_players' = r.ko
          /\ tick' = tick + r.steps
          /\ engine' = [accumulator |-> r.accumulator, steps |-> r.steps,
                        delta_time |-> Seconds(ms), before |-> engine.accumulator,
                        calls |-> engine.calls + 1]
    /\ input' = keys
    /\ UNCHANGED <<stage, twin>>

InitEngine == \E arch1 \in Archetypes : Enter(Battlefield, arch1, "warrior")

NextEngine == \E ms \in FrameLengths, k1 \in MatchKeys : EngineUpdate(ms, KeysOf(k1, NoKeys))

SpecEngine == InitEngine /\ [][NextEngine]_vars

RECURSIVE Added(_, _, _)
\* a + n * d as a real number
Added(a, n, d) ==
    IF n = 0 THEN a ELSE Strict(ExactAdd(a, d), LAMBDA b : Added(b, n - 1, d))

\* n * d as a real number
Times(n, d) == Added(Zero64, n, d)

\* what the last call had to drain: the accumulator it found plus delta_time
Drained == ExactAdd(engine.before, engine.delta_time)

\* C19: after every GameEngine.update call the accumulator is below
\* fixed_timestep (it is never negative), and the call ran as many steps as
\* there are whole fixed_timestep units in the accumulator it found plus
\* delta_time
C19_WholeStepsDrained ==
    (engine.calls > 0 /\ game_state = "gameplay") =>
        /\ ~Ge64(engine.accumulator, FIXED_TIMESTEP)
        /\ Ge64(Drained, Times(engine.steps, FIXED_TIMESTEP))
        /\ ~Ge64(Drained, Times(engine.steps + 1, FIXED_TIMESTEP))

\* the part of it the loop condition gives: what is carried is less than a step
AccumulatorBelowStep ==
    engine.calls > 0 => ~Ge64(engine.accumulator, FIXED_TIMESTEP)

\* a stalled frame was drained
StalledFrameDrained == engine.calls > 0 /\ engine.steps > 30

-----------------------------------------------------------------------------
(* Two runs of one match: the same archetypes, the same stage chosen on the *)
(* stage select screen, the same keys in every step.  Each run builds its   *)
(* own Stage object, and Plains.__init__ draws the wind when it is built.   *)
(* The first gust that redraws it comes after 3 s, beyond the steps         *)
(* followed here.                                                           *)

TwinTicks == 10

\* what player 1 may hold in a step
TwinKeys == IF tick < 2 THEN {NoKeys, KeyUp, KeyRight} ELSE {NoKeys}

InitTwin ==
    \E st \in Stages, st2 \in Stages, arch1 \in Archetypes, arch2 \in {"warrior"} :
        /\ st2.name = st.name
        /\ stage = st
        /\ characters = [p \in Players |->
                NewCharacter(IF p = 1 THEN arch1 ELSE arch2,
                             st.spawn_points[p][1], st.spawn_points[p][2], p)]
        /\ respawn_timer = [p \in Players |-> Absent]
        /\ game_state = "gameplay"
        /\ winner = 0
        /\ k_o_d_players = [p \in Players |-> NoKO]
        /\ input = [p \in Players |-> NoKeys]
        /\ tick = 0
        /\ engine = NewEngine
        /\ twin = [followed |-> TRUE, stage |-> st2,
                   g |-> [cs |-> [p \in Players |->
                                    NewCharacter(IF p = 1 THEN arch1 ELSE arch2,
                                                 st2.spawn_points[p][1],
                                                 st2.spawn_points[p][2], p)],
                          rt |-> [p \in Players |-> Absent],
                          gs |-> "gameplay", winner |-> 0],
                   ko |-> [p \in Players |-> NoKO]]

\* GameplayState.update in the second run, with the key states of the first
TwinStep(keys) ==
    twin' = IF twin.g.gs # "gameplay" THEN twin
            ELSE Let(Step(twin.g, twin.stage,
                          [p \in Players |->
                              Input(keys[p].left, keys[p].right, keys[p].up,
                                    keys[p].down, keys[p].attack, keys[p].grab,
                                    input[p].up, input[p].attack)],
                          twin.ko),
                     LAMBDA r : [twin EXCEPT !.g = r.g, !.ko = r.ko])

NextTwin ==
    /\ tick < TwinTicks
    /\ \E k1 \in TwinKeys :
          /\ GameplayStep(KeysOf(k1, NoKeys))
          /\ TwinStep(KeysOf(k1, NoKeys))
    /\ tick' = tick + 1
    /\ UNCHANGED engine

SpecTwin == InitTwin /\ [][NextTwin]_vars

\* what the two runs are compared on
Outcome(c) ==
    [position |-> <<c.px, c.py>>, velocity |-> <<c.vx, c.vy>>,
     damage_percent |-> c.damage_percent, lives |-> c.lives,
     current_state |-> c.current_state]

\* C18: two runs of the same match configuration that are given the same keys
\* in every tick agree on every character's position, velocity, damage, lives
\* and state after every tick
C18_SameRunsAgree ==
    twin.followed =>
        \A p \in Players : Outcome(characters[p]) = Outcome(twin.g.cs[p])

\* on Battlefield, where nothing is drawn at random, they do
BattlefieldRunsAgree ==
    (twin.followed /\ stage.name = "battlefield") =>
        \A p \in Players : Outcome(characters[p]) = Outcome(twin.g.cs[p])

\* so do two runs on Plains that happened to draw the same wind
SameWindRunsAgree ==
    (twin.followed /\ twin.stage = stage) =>
        \A p \in Players : Outcome(characters[p]) = Outcome(twin.g.cs[p])

\* two Battlefield runs in which a player has jumped
BattlefieldJumped ==
    /\ twin.followed /\ stage.name = "battlefield"
    /\ \E p \in Players : ~characters[p].on_ground /\ characters[p].vy < 0

-----------------------------------------------------------------------------
(* An attack session and its descriptor *)

\* C20: a character with is_attacking set cannot act and has an attack
\* descriptor loaded in current_attack
C20_AttackingHasDescriptor ==
    game_state # "crashed" =>
        \A p \in Players :
            characters[p].is_attacking =>
                /\ ~characters[p].can_act
                /\ characters[p].current_attack # NoAttack

\* the half of it that concerns can_act
AttackingCannotAct ==
    \A p \in Players : characters[p].is_attacking => ~characters[p].can_act


-----------------------------------------------------------------------------
(* Input while the character cannot act *)

\* the gate of Character.update is closed for c: the test runs after the timers
\* were stepped, so a hit_stun_timer of one step or less no longer closes it
Gated(c) == ~c.can_act \/ c.hit_stun_timer > DT

\* the key states a player may hold, with those of the step before
InputSnapshots ==
    { Input(k.left, k.right, k.up, k.down, k.attack, k.grab, FALSE, FALSE) :
        k \in {NoKeys, KeyLeft, KeyRight, KeyUp, KeyAttack} }

\* what an input may not change while the gate is closed
Controlled(c) ==
    [velocity |-> <<c.vx, c.vy>>, facing_right |-> c.facing_right,
     current_state |-> c.current_state, is_attacking |-> c.is_attacking,
     current_attack |-> c.current_attack,
     attack_state_frames |-> c.attack_state_frames]

\* C21: while can_act is false or the hit-stun timer runs, any two input
\* snapshots leave the character with the same velocity, facing, state and
\* attack session after its update
C21_GatedInputIgnored ==
    game_state = "gameplay" =>
        \A p \in Players :
            (Gated(characters[p]) /\ respawn_timer[p] = Absent) =>
                \A i1 \in InputSnapshots, i2 \in InputSnapshots :
                    Controlled(update(characters[p], i1)) = Controlled(update(characters[p], i2))

\* the same for the archetypes that read the input only in handle_input
BaseAndWarriorGated ==
    game_state = "gameplay" =>
        \A p \in Players :
            (/\ Gated(characters[p]) /\ respawn_timer[p] = Absent
             /\ characters[p].arch \in {"base", "warrior"}) =>
                \A i1 \in InputSnapshots, i2 \in InputSnapshots :
                    Controlled(update(characters[p], i1)) = Controlled(update(characters[p], i2))


-----------------------------------------------------------------------------
(* Walking off a platform edge: player 1 starts near the right end of the   *)
(* main platform and walks right; once in the air it may press up           *)

WalkOffTicks == 24

COYOTE_TIME_MAX == 3000     \* coyote_time_max = 0.1 s

InitWalkOff ==
    \E st \in Stages, arch1 \in Archetypes :
        Standing(st, arch1, "warrior",
                 st.platforms[1].x + st.platforms[1].width - 20, st.spawn_points[1][1],
                 0, 0, 3, 3)

WalkOffKeys ==
    IF characters[1].on_ground THEN {KeyRight}
    ELSE IF characters[1].current_state = "falling" /\ ~input[1].up THEN {NoKeys, KeyUp}
    ELSE {NoKeys}

NextWalkOff ==
    /\ tick < WalkOffTicks
    /\ \E k1 \in WalkOffKeys : GameplayUpdate(KeysOf(k1, NoKeys))

SpecWalkOff == InitWalkOff /\ [][NextWalkOff]_vars

\* c left its platform without jumping and has been falling since
WalkedOff(c) ==
    /\ ~c.on_ground /\ c.current_state = "falling"
    /\ c.previous_state \in {"idle", "walking", "running"}
    /\ c.can_act /\ c.hit_stun_timer = 0

\* the time since c became airborne, at the moment the next update looks at the input
AirborneFor(c) == c.state_timer + DT

\* up is pressed in this step, having been released in the step before
PressesUp(p) == input'[p].up /\ ~input[p].up

\* C22: after leaving a platform without jumping, a jump pressed within
\* coyote_time_max of becoming airborne is honoured, and one pressed later is
\* refused
C22_CoyoteJump ==
    [][\A p \in Players :
          (WalkedOff(characters[p]) /\ PressesUp(p)) =>
              /\ AirborneFor(characters[p]) < COYOTE_TIME_MAX =>
                    (characters'[p].current_state = "jumping" /\ characters'[p].vy < 0)
              /\ AirborneFor(characters[p]) > COYOTE_TIME_MAX =>
                    characters'[p].current_state # "jumping"]_vars

\* the second half alone: a jump pressed after the grace period is refused
LateJumpRefused ==
    [][\A p \in Players :
          (/\ WalkedOff(characters[p]) /\ PressesUp(p)
           /\ AirborneFor(characters[p]) > COYOTE_TIME_MAX) =>
              characters'[p].current_state # "jumping"]_vars

\* up was pressed two steps after the character walked off
EarlyJumpPressed ==
    /\ input[1].up /\ ~characters[1].on_ground
    /\ characters[1].previous_state \in {"idle", "walking", "running"}
    /\ characters[1].state_timer = 2 * DT

\* nothing ever sets the grace timer
CoyoteTimeNeverSet == \A p \in Players : characters[p].coyote_time = 0


-----------------------------------------------------------------------------
(* The damage threshold *)

\* a hit of the step just taken left c with damage_percent at or above 300
ReachedThreshold(c) ==
    /\ c.log.td # << >>
    /\ c.log.td[Len(c.log.td)].after.damage_percent >= KO_PERCENT

LastStockOverThreshold ==
    \E p \in Players :
        /\ ReachedThreshold(characters[p]) /\ characters[p].lives = 0
        /\ k_o_d_players[p].direction = "none"
        /\ game_state = "win_screen" /\ winner = Other(p)


-----------------------------------------------------------------------------
(* Tunnelling through platforms *)

\* in the step just taken, the physics moved character p level or downward
\* from on or above the top of platform pf, and every sub-step left it inside
\* the platform's inset span
CameDownOver(p, pf) ==
    /\ game_state = "gameplay"
    /\ respawn_timer[p] = Absent /\ respawn_timer'[p] = Absent
    /\ characters'[p].log.path # << >>
    /\ characters[p].py <= pf.y * MILLI
    /\ characters'[p].log.path[1].moved_y >= characters[p].py
    /\ OverPlatform(characters[p].px, pf)
    /\ \A j \in 1..Len(characters'[p].log.path) :
          OverPlatform(characters'[p].log.path[j].x, pf)

\* C24: a character that starts a physics tick on or above a platform's top,
\* stays inside the platform's inset span during the tick and does not move
\* upward ends the tick above the platform or resting on it, never below its
\* landing band
C24_NoTunnelling ==
    [][\A p \in Players : \A k \in 1..Len(stage.platforms) :
          CameDownOver(p, stage.platforms[k]) =>
              /\ characters'[p].py <= (stage.platforms[k].y + 10) * MILLI
              /\ characters'[p].py >= (stage.platforms[k].y - 5) * MILLI =>
                    characters'[p].on_ground]_vars


\* Attacking from below a platform: player 1 stands on the main platform
\* under a platform 120 px higher, player 2 stands on that platform right
\* above it, and player 1 attacks upward

UnderTicks == 30

\* the platform 120 px above the main platform
LowPlatform(st) == IF st.name = "battlefield" THEN st.platforms[2] ELSE st.platforms[3]

InitUnder ==
    \E st \in Stages, arch1 \in Archetypes, arch2 \in Archetypes, d2 \in {0, 100} :
        /\ stage = st
        /\ characters = [p \in Players |->
                IF p = 1
                THEN Settled(arch1, st, LowPlatform(st).x + 90, 1, 0, 3, TRUE)
                ELSE [Settled(arch2, st, LowPlatform(st).x + 90, 2, d2, 3, FALSE)
                        EXCEPT !.py = LowPlatform(st).y * MILLI]]
        /\ respawn_timer = [p \in Players |-> Absent]
        /\ game_state = "gameplay"
        /\ winner = 0
        /\ k_o_d_players = [p \in Players |-> NoKO]
        /\ input = [p \in Players |-> NoKeys]
        /\ tick = 0
        /\ engine = NewEngine
        /\ twin = NoTwin

UnderKeys == IF tick = 0 THEN {KeyUpAttack} ELSE {NoKeys}

NextUnder ==
    /\ tick < UnderTicks
    /\ \E k1 \in UnderKeys : GameplayUpdate(KeysOf(k1, NoKeys))

SpecUnder == InitUnder /\ [][NextUnder]_vars


-----------------------------------------------------------------------------
(* The KO record and the final position of the tick *)

\* where the physics of the step just taken left character p
FinalPosition(p) == characters[p].log.path[Len(characters[p].log.path)]

\* C25: the KO record of a tick holds the character's final position of that
\* tick and the first bound (left, right, top, bottom) that position violates
C25_KoRecordIsFinalPosition ==
    game_state # "crashed" =>
        \A p \in Players :
            (k_o_d_players[p].direction # "none" /\ characters[p].log.path # << >>) =>
                /\ k_o_d_players[p].direction = FirstViolated(FinalPosition(p), stage)
                /\ k_o_d_players[p].x = FinalPosition(p).x
                /\ k_o_d_players[p].y = FinalPosition(p).y

\* it does whenever the move was made in one sub-step
KoRecordOfSingleStep ==
    game_state # "crashed" =>
        \A p \in Players :
            (k_o_d_players[p].direction # "none" /\ Len(characters[p].log.path) = 1) =>
                /\ k_o_d_players[p].direction = FirstViolated(FinalPosition(p), stage)
                /\ k_o_d_players[p].x = FinalPosition(p).x
                /\ k_o_d_players[p].y = FinalPosition(p).y


-----------------------------------------------------------------------------
(* What a hit does to the defender *)

\* C26: a take_damage call that neither invincibility nor armor suppresses adds
\* the scaled knockback to the velocity the defender had, clears can_act, sets
\* hit_stun_timer to (damage + damage_percent * 0.02) * 0.01 s with the damage
\* after the hit, sets invincibility_timer to 0.3 s and leaves the defender in
\* hit stun
C26_HitEffects ==
    \A p \in Players :
        \A k \in DOMAIN characters[p].log.td :
            LET b == characters[p].log.td[k].before
                e == characters[p].log.td[k].after
                h == characters[p].log.td[k]
            IN (~Invincible(b) /\ ~b.has_super_armor) =>
                /\ e.vx = b.vx + ScaledKnockback(h.kx, e.damage_percent, Weight(b.arch))
                /\ e.vy = b.vy + ScaledKnockback(h.ky, e.damage_percent, Weight(b.arch))
                /\ ~e.can_act
                /\ e.hit_stun_timer = 150 * h.damage + 3 * e.damage_percent
                /\ e.invincibility_timer = INVINCIBILITY
                /\ e.current_state = "hit_stun"

\* C26 witness: a hit landed on a moving character that already carried damage
C26_Witness ==
    \E p \in Players :
        \E k \in DOMAIN characters[p].log.td :
            LET b == characters[p].log.td[k].before
                h == characters[p].log.td[k]
            IN /\ ~Invincible(b) /\ ~b.has_super_armor
               /\ b.vx # 0 /\ b.vy # 0 /\ b.damage_percent > 0
               /\ h.kx # 0 /\ h.ky # 0


-----------------------------------------------------------------------------
(* One hit per hitbox *)

\* the attacker may land hits in this step that do not come from a single-hit
\* hitbox: a body slam, or a hitbox that hits repeatedly
OtherHitSources(a, b) ==
    \/ \E k \in DOMAIN a.active_hitboxes : a.active_hitboxes[k].is_multihit
    \/ \E k \in DOMAIN b.active_hitboxes : b.active_hitboxes[k].is_multihit
    \/ a.arch = "heavy" /\ (a.is_attacking \/ b.hist.attacks # a.hist.attacks)

\* a single-hit hitbox the attacker kept lies over the defender's rectangle
KeptOverDefender(a, d) ==
    \E k \in DOMAIN a.active_hitboxes :
        /\ ~a.active_hitboxes[k].is_multihit
        /\ colliderect(HitboxRect(a.active_hitboxes[k]), get_collision_rect(d))

\* C27: a hitbox that is not multihit calls take_damage at most once: the combat
\* pass in which it first overlaps the opponent applies one hit and removes it,
\* also when the defender is invincible; so after a step no kept single-hit
\* hitbox overlaps the opponent, and the opponent took no more calls in the step
\* than hitboxes were removed in it
C27_SingleHitOnce ==
    [][ \A p \in Players :
          (game_state = "gameplay" /\ game_state' = "gameplay"
           /\ respawn_timer[Other(p)] = Absent /\ respawn_timer'[Other(p)] = Absent) =>
              /\ ~KeptOverDefender(characters'[p], characters'[Other(p)])
              /\ ~OtherHitSources(characters[p], characters'[p]) =>
                    characters'[Other(p)].hist.hits - characters[Other(p)].hist.hits
                        <= characters'[p].hist.removed - characters[p].hist.removed
      ]_vars

\* C27 witness: a single-hit hitbox met the defender, called take_damage once
\* and is gone
C27_Witness ==
    \E p \in Players :
        /\ game_state = "gameplay" /\ respawn_timer[Other(p)] = Absent
        /\ Len(characters[Other(p)].log.td) = 1
        /\ ~Invincible(characters[Other(p)].log.td[1].before)
        /\ characters[p].arch \in {"base", "warrior"}
        /\ characters[p].hist.removed = 1
        /\ characters[p].active_hitboxes = << >>

\* a single-hit hitbox met an invincible defender and is gone
InvincibleDefenderMet ==
    \E p \in Players :
        /\ game_state = "gameplay" /\ respawn_timer[Other(p)] = Absent
        /\ Len(characters[Other(p)].log.td) = 1
        /\ Invincible(characters[Other(p)].log.td[1].before)
        /\ characters[p].arch \in {"base", "warrior"}
        /\ characters[p].active_hitboxes = << >>


-----------------------------------------------------------------------------
(* The body slam *)

\* the snapshot of player p's keys that the step about to be taken reads
StepInput(p) ==
    Input(input'[p].left, input'[p].right, input'[p].up, input'[p].down,
          input'[p].attack, input'[p].grab, input[p].up, input[p].attack)

\* player p as the combat pass of the step about to be taken finds it: updated
\* and moved
AtCombat(p) == update_character_physics(update(characters[p], StepInput(p)), stage, NoKO).c

Slamming(c) == c.is_attacking /\ c.current_attack.is_body_slam

\* C28: while a Heavy's body slam runs and its rectangle does not meet the
\* opponent's, the opponent receives no take_damage call; in the step in which
\* the rectangles meet the opponent receives exactly one, the attack is over
\* (is_attacking false, current_attack cleared) and the attacker's horizontal
\* velocity is 0.2 of what it was, so one slam gives at most one call
C28_BodySlamOnce ==
    [][ \A p \in Players :
          (/\ game_state = "gameplay" /\ game_state' = "gameplay"
           /\ \A q \in Players : respawn_timer[q] = Absent /\ respawn_timer'[q] = Absent
           /\ characters[p].active_hitboxes = << >>
           /\ characters[Other(p)].active_hitboxes = << >>) =>
             Let(AtCombat(p), LAMBDA a : Let(AtCombat(Other(p)), LAMBDA d :
                (Slamming(a) /\ ~Slamming(d)) =>
                    IF colliderect(get_collision_rect(a), get_collision_rect(d))
                    THEN /\ Len(characters'[Other(p)].log.td) = 1
                         /\ ~characters'[p].is_attacking
                         /\ characters'[p].current_attack = NoAttack
                         /\ characters'[p].vx = Scale(a.vx, 2, 10)
                    ELSE /\ Len(characters'[Other(p)].log.td) = 0
                         /\ Slamming(characters'[p])))
      ]_vars

\* C28 witness: a body slam has just hit: the opponent took the slam's 18 %
\* once, the Heavy moves on at a fifth of its speed and attacks no more
C28_Witness ==
    /\ game_state = "gameplay"
    /\ characters[1].arch = "heavy" /\ characters[1].hist.attacks = 1
    /\ characters[1].hist.created = 0
    /\ ~characters[1].is_attacking /\ characters[1].current_attack = NoAttack
    /\ characters[1].vx # 0
    /\ Len(characters[2].log.td) = 1
    /\ characters[2].log.td[1].damage = 36
    /\ characters[2].hist.hits = 1

\* C29: a body slam hits only inside its active window: when a slam's hit lands
\* the attacker's attack_state_frames is at least the 12 startup frames and
\* below startup + active = 37
C29_SlamHitsInActiveWindow ==
    [][ \A p \in Players :
          (/\ game_state = "gameplay" /\ game_state' = "gameplay"
           /\ \A q \in Players : respawn_timer[q] = Absent /\ respawn_timer'[q] = Absent
           /\ characters[p].active_hitboxes = << >>
           /\ characters[Other(p)].active_hitboxes = << >>) =>
             Let(AtCombat(p), LAMBDA a :
                (Slamming(a) /\ ~Slamming(AtCombat(Other(p)))
                 /\ Len(characters'[Other(p)].log.td) > 0) =>
                    /\ a.attack_state_frames >= a.current_attack.startup_frames
                    /\ a.attack_state_frames < a.current_attack.startup_frames
                                               + a.current_attack.active_frames)
      ]_vars


-----------------------------------------------------------------------------
(* The Warrior's projectile: player 1 fires it along the main platform, with *)
(* the opponent behind or ahead and the platform's end near or far           *)

ProjectileTicks == 56

InitProjectile ==
    \E st \in Stages, arch2 \in Archetypes :
        \E x1 \in {500, st.platforms[1].x + st.platforms[1].width - 100}, x2 \in {300, 800} :
            Standing(st, "warrior", arch2, x1, x2, 0, 0, 3, 3)

ProjectileKeys == IF tick = 0 THEN {KeyDownAttack} ELSE {NoKeys}

NextProjectile ==
    /\ tick < ProjectileTicks
    /\ \E k1 \in ProjectileKeys : GameplayUpdate(KeysOf(k1, NoKeys))

SpecProjectile == InitProjectile /\ [][NextProjectile]_vars

\* the projectile one tick on, as a tick that moves it once leaves it
Advanced(hb) ==
    [hb EXCEPT !.x = hb.x + hb.velocity_x, !.y = hb.y + hb.velocity_y,
               !.lifetime = hb.lifetime - 1]

WithinBounds(hb) ==
    hb.x >= (0 - 100) * MILLI /\ hb.x <= 1380 * MILLI /\ hb.y <= 800 * MILLI

\* player p's only hitbox is a projectile, and the step taken neither let it
\* hit nor created another hitbox
ProjectileFlew(p) ==
    /\ game_state = "gameplay" /\ game_state' = "gameplay"
    /\ \A q \in Players : respawn_timer[q] = Absent /\ respawn_timer'[q] = Absent
    /\ Len(characters[p].active_hitboxes) = 1
    /\ characters[p].active_hitboxes[1].is_projectile
    /\ characters'[p].hist.created = characters[p].hist.created
    /\ Len(characters'[Other(p)].log.td) = 0

\* C30: in one tick a live projectile advances by its velocity once and its
\* lifetime drops by 1; it stays while lifetime is left and it is within the
\* off-stage bounds, and is removed otherwise, so a lifetime of 60 lasts 60 ticks
C30_ProjectileTick ==
    [][ \A p \in Players :
          ProjectileFlew(p) =>
              Let(Advanced(characters[p].active_hitboxes[1]), LAMBDA hb :
                  characters'[p].active_hitboxes =
                      IF hb.lifetime > 0 /\ WithinBounds(hb) THEN <<hb>> ELSE << >>)
      ]_vars

\* what the code does instead: two advances per tick
ProjectileAdvancesTwice ==
    [][ \A p \in Players :
          ProjectileFlew(p) =>
              Let(Advanced(characters[p].active_hitboxes[1]), LAMBDA h1 :
                Let(Advanced(h1), LAMBDA h2 :
                  characters'[p].active_hitboxes =
                      IF h1.lifetime > 0 /\ WithinBounds(h1) /\ h2.lifetime > 0 /\ WithinBounds(h2)
                      THEN <<h2>> ELSE << >>))
      ]_vars

\* the projectile of a down attack started in the first tick is fired in
\* tick 20 and gone, unhit, after tick 49: it was in flight for 30 ticks
ProjectileSpent ==
    /\ tick = 49
    /\ characters[1].hist.created = 1 /\ characters[1].hist.removed = 1
    /\ characters[2].hist.hits = 0

\* no projectile outlives tick 49
ProjectileGoneByThen ==
    tick >= 49 => \A k \in DOMAIN characters[1].active_hitboxes :
                    ~characters[1].active_hitboxes[k].is_projectile


-----------------------------------------------------------------------------
(* The direction of the knockback *)

\* player p goes into the combat pass of the step about to be taken with one
\* hitbox and no body slam, the opponent with nothing that hits, and the
\* opponent receives one take_damage call in the step: the call is that hitbox's
LoneHitboxHit(p) ==
    /\ game_state = "gameplay" /\ game_state' = "gameplay"
    /\ \A q \in Players : respawn_timer[q] = Absent /\ respawn_timer'[q] = Absent
    /\ Len(AtCombat(p).active_hitboxes) = 1 /\ ~Slamming(AtCombat(p))
    /\ AtCombat(Other(p)).active_hitboxes = << >> /\ ~Slamming(AtCombat(Other(p)))
    /\ Len(characters'[Other(p)].log.td) = 1

\* C31: the vertical knockback handed to take_damage is negative (upward) when
\* the hitbox's knockback angle is negative and positive (downward) when the
\* angle is positive
C31_NegativeAngleKnocksUp ==
    [][ \A p \in Players :
          LoneHitboxHit(p) =>
              Let(AtCombat(p).active_hitboxes[1].knockback_angle, LAMBDA angle :
                Let(characters'[Other(p)].log.td[1].ky, LAMBDA ky :
                  /\ angle < 0 => ky < 0
                  /\ angle > 0 => ky > 0))
      ]_vars

\* what the code does instead: the vertical knockback has the angle's sign
\* turned round
KnockbackAgainstAngle ==
    [][ \A p \in Players :
          LoneHitboxHit(p) =>
              Let(AtCombat(p).active_hitboxes[1].knockback_angle, LAMBDA angle :
                Let(characters'[Other(p)].log.td[1].ky, LAMBDA ky :
                  /\ angle < 0 => ky > 0
                  /\ angle > 0 => ky < 0))
      ]_vars


\* C32: the horizontal knockback of a hit points right when its owner's x is
\* smaller than the defender's x at the combat pass and left otherwise,
\* whichever way the owner faces and wherever the hitbox is
C32_KnockbackAwayFromOwner ==
    [][ \A p \in Players :
          (/\ game_state = "gameplay" /\ game_state' = "gameplay"
           /\ \A q \in Players : respawn_timer[q] = Absent /\ respawn_timer'[q] = Absent) =>
             \A k \in DOMAIN characters'[Other(p)].log.td :
                 Let(characters'[Other(p)].log.td[k].kx, LAMBDA kx :
                     IF AtCombat(p).px < AtCombat(Other(p)).px THEN kx >= 0 ELSE kx <= 0)
      ]_vars

\* C32 witness: a hit whose owner faces right and does not stand left of the
\* defender has knocked the defender to the left
C32_Witness ==
    \E p \in Players :
        /\ game_state = "gameplay" /\ respawn_timer[Other(p)] = Absent
        /\ Len(characters[Other(p)].log.td) = 1
        /\ characters[Other(p)].log.td[1].kx < 0
        /\ characters[p].facing_right
        /\ characters[p].px >= characters[Other(p)].px

\* a hit whose owner stands left of the defender has knocked it to the right
KnockedRight ==
    \E p \in Players :
        /\ game_state = "gameplay" /\ respawn_timer[Other(p)] = Absent
        /\ Len(characters[Other(p)].log.td) = 1
        /\ characters[Other(p)].log.td[1].kx > 0
        /\ characters[p].px < characters[Other(p)].px


-----------------------------------------------------------------------------
(* Both players attack at once, face to face and 30 pixels apart *)

MutualTicks == 30

KeyLeftAttack == Keys(TRUE, FALSE, FALSE, FALSE, TRUE, FALSE)

InitMutual ==
    \E arch1 \in Archetypes, arch2 \in Archetypes :
        Standing(Battlefield, arch1, arch2, 600, 630, 0, 0, 3, 3)

NextMutual ==
    /\ tick < MutualTicks
    /\ \E k1 \in IF tick = 0 THEN {KeyAttack, KeySideAttack} ELSE {NoKeys},
          k2 \in IF tick = 0 THEN {KeyAttack, KeyLeftAttack} ELSE {NoKeys} :
            GameplayUpdate(KeysOf(k1, k2))

SpecMutual == InitMutual /\ [][NextMutual]_vars

\* the hitbox as the combat pass tests it, after its own count-down
Counted(hb) ==
    IF hb.is_projectile THEN Advanced(hb)
    ELSE [hb EXCEPT !.frames_remaining = hb.frames_remaining - 1]

\* character a, as it goes into the combat pass, has a body slam or a live
\* single-hit hitbox over character d
Threatens(a, d) ==
    \/ Slamming(a) /\ colliderect(get_collision_rect(a), get_collision_rect(d))
    \/ \E k \in DOMAIN a.active_hitboxes :
          Let(Counted(a.active_hitboxes[k]), LAMBDA hb :
              /\ ~hb.is_multihit
              /\ IF hb.is_projectile THEN hb.lifetime > 0 /\ WithinBounds(hb)
                 ELSE hb.frames_remaining > 0
              /\ colliderect(HitboxRect(hb), get_collision_rect(d)))

\* the first take_damage call player p received in the last step was applied
HitApplied(c) ==
    /\ Len(c.log.td) >= 1
    /\ c.log.td[1].after.damage_percent = c.log.td[1].before.damage_percent + c.log.td[1].damage
         \/ c.log.td[1].before.has_super_armor

\* C33: when each character's attack overlaps the other in the same combat pass
\* and neither is invincible, each of the two receives its hit in that step
C33_MutualHitsBothApply ==
    [][ (/\ game_state = "gameplay" /\ game_state' = "gameplay"
         /\ \A q \in Players : respawn_timer[q] = Absent /\ respawn_timer'[q] = Absent
         /\ Threatens(AtCombat(1), AtCombat(2)) /\ Threatens(AtCombat(2), AtCombat(1))
         /\ ~Invincible(AtCombat(1)) /\ ~Invincible(AtCombat(2))) =>
            \A p \in Players :
                /\ HitApplied(characters'[p])
                /\ ~Invincible(characters'[p].log.td[1].before)
      ]_vars

\* C33 witness: both characters were hit in the same step, neither invincible
\* before, and both carry the damage
C33_Witness ==
    /\ game_state = "gameplay"
    /\ \A p \in Players :
          /\ Len(characters[p].log.td) = 1
          /\ ~Invincible(characters[p].log.td[1].before)
          /\ ~characters[p].log.td[1].before.has_super_armor
          /\ characters[p].damage_percent = characters[p].log.td[1].damage
          /\ characters[p].damage_percent > 0

\* a Heavy's body slam and the opponent's attack met in the first step
SlamMetHitbox ==
    /\ game_state = "gameplay" /\ tick = 1
    /\ \A p \in Players : Len(characters[p].log.td) = 1
    /\ \E p \in Players : characters[p].arch = "heavy" /\ characters[p].log.td[1].before.has_super_armor
                          /\ characters[Other(p)].log.td[1].damage = 36


-----------------------------------------------------------------------------
(* Cutting a jump short *)

\* player p is ascending in the jumping state, free to act, and the up button,
\* released before the last step, stays released in the step about to be taken:
\* the step that saw the release has already cut the jump
ReleasedEarlier(p) ==
    /\ game_state = "gameplay" /\ game_state' = "gameplay"
    /\ respawn_timer[p] = Absent /\ respawn_timer'[p] = Absent
    /\ characters[p].current_state = "jumping" /\ characters[p].vy < 0
    /\ characters[p].can_act /\ characters[p].hit_stun_timer <= 0
    /\ ~input[p].up /\ ~input'[p].up

\* C34: the release of the jump button halves the upward velocity once; a later
\* tick with the button still released leaves the velocity handle_input finds
C34_JumpCutOnce ==
    [][ \A p \in Players :
          ReleasedEarlier(p) =>
              handle_input(characters[p], StepInput(p)).vy = characters[p].vy
      ]_vars

\* what the code does instead: every such tick halves the velocity again
JumpCutEveryTick ==
    [][ \A p \in Players :
          ReleasedEarlier(p) =>
              handle_input(characters[p], StepInput(p)).vy = Scale(characters[p].vy, 5, 10)
      ]_vars


-----------------------------------------------------------------------------
(* Super armor *)

\* Player 1, a Heavy, enters its armor stance or throws its armored punch in the
\* first tick; player 2, face to face with it, attacks once, at any tick
ArmorTicks == 36

InitArmor ==
    \E arch2 \in Archetypes : Standing(Battlefield, "heavy", arch2, 600, 630, 0, 0, 3, 3)

NextArmor ==
    /\ tick < ArmorTicks
    /\ \E k1 \in IF tick = 0 THEN {KeyDownAttack, KeyAttack} ELSE {NoKeys},
          k2 \in IF characters[2].hist.attacks = 0 /\ ~input[2].attack
                 THEN {NoKeys, KeyAttack} ELSE {NoKeys} :
            GameplayUpdate(KeysOf(k1, k2))

SpecArmor == InitArmor /\ [][NextArmor]_vars

\* C35: a hit on a Heavy whose super armor is active changes nothing of the
\* Heavy but damage_percent, which grows by the damage times damage_multiplier:
\* half the damage while the armor stance is active, the damage otherwise
C35_ArmorAbsorbs ==
    \A p \in Players :
        \A k \in DOMAIN characters[p].log.td :
            LET b == characters[p].log.td[k].before
                e == characters[p].log.td[k].after
                damage == characters[p].log.td[k].damage
            IN (b.arch = "heavy" /\ b.has_super_armor) =>
                  e = [b EXCEPT !.damage_percent =
                          b.damage_percent + (IF b.power_stance_active THEN damage \div 2
                                              ELSE damage)]

\* C35 witness: a Heavy in its armor stance, moving, took half of a hit's damage
C35_Witness ==
    \E p \in Players :
        \E k \in DOMAIN characters[p].log.td :
            LET b == characters[p].log.td[k].before
                e == characters[p].log.td[k].after
                h == characters[p].log.td[k]
            IN /\ b.arch = "heavy" /\ b.has_super_armor /\ b.power_stance_active
               /\ h.damage > 0 /\ (h.kx # 0 \/ h.ky # 0)
               /\ e.damage_percent = b.damage_percent + h.damage \div 2

\* an armored Heavy outside the stance took the whole damage of a hit
ArmoredOutsideStance ==
    \E p \in Players :
        \E k \in DOMAIN characters[p].log.td :
            LET b == characters[p].log.td[k].before
                e == characters[p].log.td[k].after
                h == characters[p].log.td[k]
            IN /\ b.arch = "heavy" /\ b.has_super_armor /\ ~b.power_stance_active
               /\ h.damage > 0 /\ (h.kx # 0 \/ h.ky # 0)
               /\ e.damage_percent = b.damage_percent + h.damage


-----------------------------------------------------------------------------
(* The life of a hitbox.  Player 1, a Warrior one hit from the threshold,    *)
(* fires its projectile with its back to player 2, who strikes once, at any  *)
(* tick, turning to it from 30 pixels behind                                 *)

SpentTicks == 56

InitSpent ==
    \E arch2 \in Archetypes :
        Standing(Battlefield, "warrior", arch2, 600, 570, KO_PERCENT - 10, 0, 2, 3)

NextSpent ==
    /\ tick < SpentTicks
    /\ \E k1 \in IF tick = 0 THEN {KeyDownAttack} ELSE {NoKeys},
          k2 \in IF characters[2].hist.attacks = 0 /\ ~input[2].attack
                 THEN {NoKeys, KeySideAttack} ELSE {NoKeys} :
            GameplayUpdate(KeysOf(k1, k2))

SpecSpent == InitSpent /\ [][NextSpent]_vars

\* the combat passes a hitbox has left
Life(hb) == IF hb.is_projectile THEN hb.lifetime ELSE hb.frames_remaining

\* hitbox n is hitbox o at least one combat pass later
Aged(o, n) ==
    /\ n.attack_type = o.attack_type /\ n.is_projectile = o.is_projectile
    /\ Life(n) <= Life(o) - 1

RECURSIVE Matches(_, _)
\* the hitboxes of new are hitboxes of old, in order and each aged
Matches(old, new) ==
    IF new = << >> THEN TRUE
    ELSE IF old = << >> THEN FALSE
    ELSE \/ Aged(Head(old), Head(new)) /\ Matches(Tail(old), Tail(new))
         \/ Matches(Tail(old), new)

\* C36: every hitbox is removed as ticks go on: a hitbox in the list has at
\* least one pass left, a hitbox created in a step has already spent one of its
\* frames_remaining or lifetime by the end of it, and every step takes at least
\* one more from each hitbox it keeps, also when the owner attacks no more or
\* waits to respawn
C36_HitboxesRunOut ==
    [][ \A p \in Players :
          (game_state = "gameplay" /\ game_state' = "gameplay") =>
             Let(characters'[p].hist.created - characters[p].hist.created, LAMBDA made :
               Let(characters'[p].active_hitboxes, LAMBDA new :
                 /\ \A k \in DOMAIN new : Life(new[k]) >= 1
                 /\ made <= 1
                 /\ Len(new) >= made =>
                       Matches(characters[p].active_hitboxes, SubSeq(new, 1, Len(new) - made))
                 /\ (made = 1 /\ Len(new) >= 1 /\ characters'[p].is_attacking
                     /\ ~new[Len(new)].is_projectile /\ new[Len(new)].attack_type # "ground_pound") =>
                       Life(new[Len(new)]) <= characters'[p].current_attack.active_frames - 1
                 /\ (made = 1 /\ Len(new) >= 1 /\ new[Len(new)].is_projectile) =>
                       Life(new[Len(new)]) <= 60 - 1))
      ]_vars

\* C36 witness: the owner has been waiting to respawn for some ticks and its
\* projectile, still in flight, has aged meanwhile
C36_Witness ==
    \E p \in Players :
        /\ game_state = "gameplay"
        /\ respawn_timer[p] # Absent /\ respawn_timer[p] < RESPAWN_TIME - 3 * DT
        /\ Len(characters[p].active_hitboxes) = 1
        /\ characters[p].active_hitboxes[1].is_projectile
        /\ characters[p].active_hitboxes[1].lifetime < 50

\* the projectile is gone while its owner still waits to respawn
SpentWhileRespawning ==
    \E p \in Players :
        /\ game_state = "gameplay"
        /\ respawn_timer[p] # Absent
        /\ characters[p].hist.created = 1 /\ characters[p].hist.removed = 1
        /\ characters[p].active_hitboxes = << >>
        /\ characters[Other(p)].hist.hits = 0


-----------------------------------------------------------------------------
(* Hit stun and the defender's own attack *)

\* player p is still in hit stun when the step about to be taken updates it
StunnedThrough(p) ==
    /\ game_state = "gameplay" /\ game_state' = "gameplay"
    /\ respawn_timer[p] = Absent /\ respawn_timer'[p] = Absent
    /\ characters[p].hit_stun_timer > DT

\* C37: a character in hit stun creates no hitbox, and its attack frame counter
\* does not advance
C37_HitStunStopsAttack ==
    [][ \A p \in Players :
          StunnedThrough(p) =>
              /\ characters'[p].hist.created = characters[p].hist.created
              /\ characters'[p].attack_state_frames = characters[p].attack_state_frames
      ]_vars

\* the weaker half: no hitbox is created in hit stun
NoHitboxInHitStun ==
    [][ \A p \in Players :
          StunnedThrough(p) => characters'[p].hist.created = characters[p].hist.created
      ]_vars


-----------------------------------------------------------------------------
(* A rising edge and the steps of its frame.  PlayerInput.update runs once  *)
(* in GameEngine.update, before the accumulator is drained: every step of   *)
(* the frame is handed the same current_inputs and previous_inputs.         *)

\* the frame samples a rising edge of p's attack button
EdgeSampled(p) == input'[p].attack /\ ~input[p].attack

\* p stands free: the gate of Character.update is open and perform_attack
\* would pass its guard
StandsFree(c) == ~Gated(c) /\ ~Busy(c)

\* the perform_attack calls p received in the frame: one for every step that
\* found was_just_pressed('attack') true with the gate open
AttackCallsInFrame(p) == characters'[p].hist.calls - characters[p].hist.calls

\* C38: a rising edge of the attack button of a player who stands free is
\* seen as just pressed by exactly one simulation tick, whatever the number
\* of fixed steps the frame drains
C38_EdgeSeenOnce ==
    [][ \A p \in Players :
          (EdgeSampled(p) /\ StandsFree(characters[p]))
              => AttackCallsInFrame(p) = 1 ]_vars

\* what the code gives: a frame that drains no step shows the edge to no
\* tick, and the edge is gone when the next frame samples the keys
EdgeLostInEmptyFrame ==
    [][ \A p \in Players :
          (EdgeSampled(p) /\ engine'.steps = 0)
              => /\ characters' = characters
                 /\ ~JustPressedAttack(Input(FALSE, FALSE, FALSE, FALSE, TRUE, FALSE,
                                             input'[p].up, input'[p].attack)) ]_vars

\* the key was held from the first frame on, a step has run, and no
\* perform_attack call was made
HeldKeyNeverSeen ==
    /\ engine.calls = 2 /\ tick = 1 /\ input[1].attack
    /\ characters[1].hist.calls = 0

\* one frame, one edge, two attacks begun: the stalled frame showed the
\* edge to the step after the first attack ended as well
EdgeSeenTwiceInFrame ==
    /\ engine.calls = 1 /\ engine.steps > 30
    /\ characters[1].hist.attacks >= 2


-----------------------------------------------------------------------------
(* The respawn wait.  ko_player puts 2.0 s into respawn_timer; while the    *)
(* entry is there GameplayState.update skips the character's update() but   *)
(* PhysicsManager.update still goes over it; update_respawn_timers calls    *)
(* respawn_player when the entry runs out, before the character updates of  *)
(* the same step.                                                           *)

Waiting(p) == respawn_timer[p] # Absent

\* the entry of p runs out in the step about to be taken
RunsOut(p) == Waiting(p) /\ respawn_timer[p] - DT <= 0

\* c put on its respawn point with no velocity
AtRespawnPoint(c) ==
    [c EXCEPT !.px = stage.spawn_points[c.player_id][1] * MILLI,
              !.py = stage.spawn_points[c.player_id][2] * MILLI,
              !.vx = 0, !.vy = 0, !.log = EmptyLog]

\* player p as the physics of the step about to be taken should find it: left
\* alone while it waits, respawned and then updated when the wait ends,
\* updated otherwise
FoundByPhysics(p) ==
    IF ~Waiting(p) THEN update([characters[p] EXCEPT !.log = EmptyLog], StepInput(p))
    ELSE IF RunsOut(p) THEN update(AtRespawnPoint(characters[p]), StepInput(p))
    ELSE [characters[p] EXCEPT !.log = EmptyLog]

\* the two characters after the physics of such a step
AfterPhysics ==
    check_combat_collisions(
        [q \in Players |-> update_character_physics(FoundByPhysics(q), stage, NoKO).c])

\* C39: a wait begins at 2.0 s when a stock is taken and one is left; in every
\* step that begins with p waiting and the timer not running out, the timer
\* loses one step, p's update() is not called and p is not respawned (only
\* physics acts on it); in the step in which the timer runs out the entry is
\* deleted and p is put on its respawn point with zero velocity before it is
\* updated and moved, so a wait ends in exactly one respawn
C39_RespawnOnce ==
    [][ \A p \in Players :
          /\ (~Waiting(p) /\ respawn_timer'[p] # Absent)
                => /\ respawn_timer'[p] = RESPAWN_TIME
                   /\ characters'[p].log.lost = 1 /\ characters'[p].lives > 0
          /\ (Waiting(p) /\ ~RunsOut(p))
                => /\ respawn_timer'[p] = respawn_timer[p] - DT
                   /\ characters'[p] = AfterPhysics[p]
          /\ RunsOut(p)
                => /\ respawn_timer'[p] = Absent
                   /\ characters'[p] = AfterPhysics[p] ]_vars

\* C39 witness: the step just run ended a wait: the character stands in the
\* column of its respawn point, one stock down, and falls from there
C39_Witness ==
    \E p \in Players :
        /\ game_state = "gameplay" /\ tick > 120
        /\ ~Waiting(p) /\ ~characters[p].hist.clean
        /\ characters[p].lives > 0
        /\ characters[p].px = stage.spawn_points[p][1] * MILLI
        /\ characters[p].py >= stage.spawn_points[p][2] * MILLI
        /\ characters[p].py < (stage.spawn_points[p][2] + 1) * MILLI

\* a character half way through its wait, moved by physics alone
WaitingHalfWay ==
    \E p \in Players :
        /\ Waiting(p) /\ respawn_timer[p] < RESPAWN_TIME \div 2
        /\ characters[p].py > 300 * MILLI


-----------------------------------------------------------------------------
(* Stopping on the ground.  With no horizontal input apply_ground_movement  *)
(* multiplies velocity[0] by (1.0 - ground_deceleration) while its          *)
(* magnitude is above 0.1, and ground_deceleration is 1.8.                  *)

StopTicks == 6

InitStop ==
    \E st \in Stages, arch1 \in Archetypes :
        Standing(st, arch1, "warrior", st.spawn_points[1][1], st.spawn_points[2][1],
                 0, 0, 3, 3)

StopKeys == {NoKeys, KeyLeft, KeyRight}

NextStop ==
    /\ tick < StopTicks
    /\ \E k1 \in StopKeys : GameplayUpdate(KeysOf(k1, NoKeys))

SpecStop == InitStop /\ [][NextStop]_vars

\* player p stands on the ground, may act, and the step about to be taken
\* brings it no horizontal input
Coasting(p) ==
    /\ game_state = "gameplay" /\ respawn_timer[p] = Absent
    /\ characters[p].on_ground /\ ~Gated(characters[p])
    /\ get_horizontal_axis(StepInput(p)) = 0

\* the horizontal velocity of u is that of c brought nearer to zero, on the
\* same side of it
DecayedFrom(u, c) == Abs(u.vx) <= Abs(c.vx) /\ u.vx * c.vx >= 0

\* C40: an update of a grounded character that may act and has no horizontal
\* input leaves the magnitude of its horizontal velocity no larger and does
\* not change its sign
C40_GroundDecay ==
    [][ \A p \in Players :
          Coasting(p) => DecayedFrom(update(characters[p], StepInput(p)), characters[p]) ]_vars

\* what the code gives: above 0.1 the velocity is multiplied by -0.8, so it
\* changes sides on every update while it shrinks; at 0.1 or less it is set to 0
GroundDecayAlternates ==
    [][ \A p \in Players :
          Coasting(p) =>
              update(characters[p], StepInput(p)).vx =
                  IF Abs(characters[p].vx) > 100
                  THEN Scale(characters[p].vx, 0 - 800, MILLI)
                  ELSE 0 ]_vars

\* a character that let go of the key while walking right now moves left
CoastingBackwards ==
    /\ characters[1].on_ground /\ characters[1].vx < 0
    /\ ~input[1].left /\ ~input[1].right
    /\ characters[1].px > stage.spawn_points[1][1] * MILLI
    /\ characters[1].facing_right

====
